---- MODULE Spec2Model ----
(***************************************************************************)
(* Verification model of the stock analysis engine:                        *)
(*   analysis/predictive_model.py     StockPredictor, create_predictive_model *)
(*   analysis/analysis_orchestrator.py AnalysisOrchestrator                 *)
(*   analysis/seasonality_analysis.py SeasonalityAnalyzer                   *)
(*   analysis/technical_indicators.py TechnicalIndicators                   *)
(*   backend/database/database_manager.py DatabaseManager                 *)
(*   backend/scrapers/data_collector.py   DataCollector                   *)
(*   backend/scrapers/sp500_scraper.py    SP500Scraper                    *)
(*                                                                         *)
(* Conventions.                                                            *)
(*   Rows are numbered 1..n here; row i is pandas position iloc[i-1].      *)
(*   Probabilities are integers in permille (0.6 is 600).                  *)
(*   A close-to-close return b/a - 1 is kept as the fixed-point integer    *)
(*   ((b - a) * RetScale) \div a, a monotone image of the float.           *)
(*   The scikit-learn classifiers are opaque: training draws, for each     *)
(*   family, either a failure or a held-out score, and for the selected    *)
(*   model a prediction function over a feature class of the row.          *)
(***************************************************************************)
EXTENDS Integers, Sequences, FiniteSets, TLC

VARIABLES
    data,             \* the PriceBar frame under analysis: [Close, Volume]
                      \* (the stock_data table in SpecStore, the call's
                      \* argument and the scraper's answers in SpecRetry)
    constructed,      \* a StockPredictor object exists for data
    features,         \* per row: TRUE iff all 25 feature columns are non-NaN
    labels,           \* per row: the Next_Day_Direction column
    models,           \* self.models: names of the fitted families
    model_scores,     \* train_models' model_scores dict, in insertion order
    train_rows,       \* rows of clean_data handed to train_test_split
    best_model_name,  \* self.best_model_name, or NoModel
    best_model,       \* self.best_model: feature class -> [prob, pred]
    sklearn,          \* what fitting on this frame yields (fixed by the data
                      \* and random_state): [outcome, clf]
    result            \* what the last call returned (or that it raised)

vars == <<data, constructed, features, labels, models, model_scores,
          train_rows, best_model_name, best_model, sklearn, result>>

-----------------------------------------------------------------------------
(* Bounds of the explored inputs *)

MaxTail == 1          \* free rows appended after the generated base series
BasePrice == 10       \* lowest close of a generated base series
RetScale == 10000     \* fixed-point resolution of a return
MaxDaysBack == 3      \* explicit days_back arguments tried (besides the default)

Shapes == {"up", "down", "zigzag", "flat"}
BaseLens == {0, 49, 98}
ScenarioLen == 300            \* scenario A: 300 strictly increasing closes
Steps == {-1, 0, 1}
VolumeLevels == {0, 1000}     \* constant volume of the whole frame

(* Program constants *)

MA_Long == 50             \* rolling(50), the longest feature window
RSI_Window == 14          \* rolling(14) of gains and losses
BB_Window == 20           \* rolling(20) std of Volatility_20d and the bands
Volume_Window == 20       \* rolling(20) mean of Volume
test_size_pct == 20       \* test_size = 0.2
MinDays == 100            \* len(data) < 100
DefaultDaysBack == 252    \* days_back = 252
BullishAbove == 600       \* probability > 0.6
BearishBelow == 400       \* probability < 0.4
HighBullAbove == 750      \* probability > 0.75
HighBearBelow == 250      \* probability < 0.25
NeutralBand == 50         \* abs(probability - 0.5) > 0.05
Half == 500               \* 0.5, the default probability

NoModel == "none"
Families == <<"random_forest", "gradient_boosting", "logistic_regression">>
FAIL == -1                \* a family whose fit or scoring raised

-----------------------------------------------------------------------------
(* Generic helpers *)

Abs(x) == IF x < 0 THEN -x ELSE x
Min(a, b) == IF a < b THEN a ELSE b
Max(a, b) == IF a > b THEN a ELSE b

RECURSIVE SumSeq(_)
SumSeq(s) == IF s = <<>> THEN 0 ELSE s[1] + SumSeq(Tail(s))

RECURSIVE CountPos(_)
CountPos(s) == IF s = <<>> THEN 0
               ELSE (IF s[1] > 0 THEN 1 ELSE 0) + CountPos(Tail(s))

-----------------------------------------------------------------------------
(* Input frames: a generated base series followed by free steps *)

BaseClose(shape, p, i) ==
    CASE shape = "up"     -> BasePrice + i
      [] shape = "down"   -> BasePrice + (p - i)
      [] shape = "zigzag" -> BasePrice + (i % 2)
      [] OTHER            -> BasePrice

RECURSIVE Walk(_, _)
Walk(last, steps) ==
    IF steps = <<>> THEN <<>>
    ELSE <<last + steps[1]>> \o Walk(last + steps[1], Tail(steps))

Series(shape, p, steps) ==
    LET base == [i \in 1..p |-> BaseClose(shape, p, i)]
        last == IF p = 0 THEN BasePrice ELSE base[p]
    IN  base \o Walk(last, steps)

TailsOf(k) == UNION {[1..m -> Steps] : m \in 0..k}

ScenarioA == [Close |-> Series("up", ScenarioLen, <<>>), Volume |-> 1000]

Frames ==
    {[Close |-> Series(sh, p, t), Volume |-> v] :
        sh \in Shapes, p \in BaseLens, t \in TailsOf(MaxTail), v \in VolumeLevels}
    \cup {ScenarioA}

-----------------------------------------------------------------------------
(* StockPredictor.prepare_features *)

\* Next_Day_Return = Close.shift(-1) / Close - 1: undefined on the last row
Next_Day_Return_defined(c, i) == i < Len(c)

Ret(a, b) == ((b - a) * RetScale) \div a

\* Next_Day_Direction = (Next_Day_Return > 0).astype(int); NaN > 0 is False
Next_Day_Direction(c, i) ==
    IF Next_Day_Return_defined(c, i) /\ c[i + 1] > c[i] THEN 1 ELSE 0

\* rolling(w) over rows ..i is NaN unless w rows exist
RollingDefined(i, w) == i >= w

\* RSI = 100 - 100/(1 + gains/losses): gains/losses is 0/0 = NaN when the
\* 14 price changes ending at row i are all zero
\* (the first row's change is NaN and enters both windows as 0)
RSI_defined(c, i) ==
    /\ RollingDefined(i, RSI_Window)
    /\ \E j \in (i - RSI_Window + 1)..i : j > 1 /\ c[j] # c[j - 1]

\* Volatility_Ratio = std5/std20 and BB_Position = (Close - lower)/(upper - lower)
\* are 0/0 = NaN when the 20 closes ending at row i are all equal
Band_defined(c, i) ==
    /\ RollingDefined(i, BB_Window)
    /\ \E j \in (i - BB_Window + 1)..i : c[j] # c[i]

\* Volume_Ratio and Volume_Lag_k divide by Volume_MA: 0/0 = NaN on zero volume
Volume_defined(d, i) == RollingDefined(i, Volume_Window) /\ d.Volume # 0

\* every column of get_feature_columns is non-NaN at row i
FeatureRow(d, i) ==
    /\ RollingDefined(i, MA_Long)
    /\ RSI_defined(d.Close, i)
    /\ Band_defined(d.Close, i)
    /\ Volume_defined(d, i)

prepare_features(d) == [i \in 1..Len(d.Close) |-> FeatureRow(d, i)]

prepare_labels(d) == [i \in 1..Len(d.Close) |-> Next_Day_Direction(d.Close, i)]

NewPredictor(d) ==
    [features        |-> IF Len(d.Close) = 0 THEN <<>> ELSE prepare_features(d),
     labels          |-> IF Len(d.Close) = 0 THEN <<>> ELSE prepare_labels(d),
     models          |-> {},
     model_scores    |-> <<>>,
     train_rows      |-> {},
     best_model_name |-> NoModel,
     best_model      |-> NoModel]

\* the frame's index: a DatetimeIndex, or (from get_stock_data) an object
\* Index of datetime.date values, which has no .month/.quarter/.dayofweek
IndexKinds == {"DatetimeIndex", "date"}

\* StockPredictor.__init__ raises on a non-empty frame without a DatetimeIndex
InitRaises(d, idx) == Len(d.Close) > 0 /\ idx # "DatetimeIndex"

-----------------------------------------------------------------------------
(* StockPredictor.prepare_training_data and train_models *)

\* clean_data = data[feature_cols + ['Next_Day_Direction']].dropna():
\* Next_Day_Direction is an int column and is never NaN
clean_data(P) == {i \in DOMAIN P.features : P.features[i]}

ClassCount(P, rows, c) == Cardinality({i \in rows : P.labels[i] = c})

Classes(P, rows) == {P.labels[i] : i \in rows}

\* n_test = ceil(test_size * n), n_train = n - n_test
n_test(n) == (n * test_size_pct + 99) \div 100

\* train_test_split(..., stratify=y) raises ValueError when the train set
\* would be empty, when a class has a single member, or when a side of the
\* split is smaller than the number of classes
SplitRaises(P, rows) ==
    LET n == Cardinality(rows)
        k == Cardinality(Classes(P, rows))
    IN  \/ n - n_test(n) = 0
        \/ \E c \in Classes(P, rows) : ClassCount(P, rows, c) < 2
        \/ n - n_test(n) < k
        \/ n_test(n) < k

\* with a single class in y no family scores: RandomForest's
\* predict_proba(X)[:, 1] is out of range, the other two refuse to fit
FitRaises(P, rows) == Cardinality(Classes(P, rows)) < 2

ScoreLevels == {0, 1}              \* held-out accuracy levels a family may reach
Outcomes == {FAIL} \cup ScoreLevels

FeatClasses == {"up", "notup"}
Outputs == {[prob |-> 300, pred |-> 0], [prob |-> 550, pred |-> 1],
            [prob |-> 700, pred |-> 1]}
Classifiers == [FeatClasses -> Outputs]

\* the feature class of row i the fitted models are taken to depend on:
\* the sign of Return_Lag_1
FeatClass(d, i) ==
    IF i > 1 /\ d.Close[i] > d.Close[i - 1] THEN "up" ELSE "notup"

\* model_scores after the training loop: the families that did not raise,
\* in training order, each with its accuracy
RECURSIVE ScoresFrom(_, _)
ScoresFrom(outcome, k) ==
    IF k > Len(Families) THEN <<>>
    ELSE (IF outcome[k] = FAIL THEN <<>>
          ELSE <<[name |-> Families[k], accuracy |-> outcome[k]]>>)
         \o ScoresFrom(outcome, k + 1)

\* max(model_scores, key=model_scores.get): the first key, in insertion
\* order, whose value no other exceeds
RECURSIVE FirstMax(_, _, _)
FirstMax(scores, k, best) ==
    IF k > Len(scores) THEN best
    ELSE FirstMax(scores, k + 1,
                  IF scores[k].accuracy > scores[best].accuracy THEN k ELSE best)

\* the selection with ties going to the family trained last
RECURSIVE LastMax(_, _, _)
LastMax(scores, k, best) ==
    IF k > Len(scores) THEN best
    ELSE LastMax(scores, k + 1,
                 IF scores[k].accuracy >= scores[best].accuracy THEN k ELSE best)

SelectBest_last(scores) == scores[LastMax(scores, 2, 1)].name

SelectBest(scores) == scores[FirstMax(scores, 2, 1)].name

\* prepare_training_data on an empty frame: the feature columns do not exist
TrainRaises(P, d) ==
    \/ Len(d.Close) = 0
    \/ clean_data(P) # {} /\ SplitRaises(P, clean_data(P))

\* the predictor after train_models returned normally
Trained(P, outcome, clf) ==
    LET rows   == clean_data(P)
        out    == IF FitRaises(P, rows) THEN [k \in 1..Len(Families) |-> FAIL]
                  ELSE outcome
        scores == ScoresFrom(out, 1)
    IN  IF rows = {} THEN P
        ELSE [P EXCEPT
                !.train_rows = rows,
                !.model_scores = scores,
                !.models = P.models \cup {scores[k].name : k \in 1..Len(scores)},
                !.best_model_name =
                    IF scores = <<>> THEN P.best_model_name ELSE SelectBest(scores),
                !.best_model =
                    IF scores = <<>> THEN P.best_model ELSE clf]

-----------------------------------------------------------------------------
(* StockPredictor.predict_next_day *)

DefaultPrediction ==
    [prediction |-> "neutral", probability |-> Half, confidence |-> "low",
     model_used |-> NoModel]

\* direction and confidence from the class-1 probability
Direction(p) ==
    IF p > BullishAbove THEN "bullish"
    ELSE IF p < BearishBelow THEN "bearish"
    ELSE "neutral"

\* Confidence with the neutral band read as >= instead of >
Confidence_inclusive(p) ==
    IF p > BullishAbove THEN (IF p > HighBullAbove THEN "high" ELSE "medium")
    ELSE IF p < BearishBelow THEN (IF p < HighBearBelow THEN "high" ELSE "medium")
    ELSE (IF Abs(p - Half) >= NeutralBand THEN "medium" ELSE "low")

Confidence(p) ==
    IF p > BullishAbove THEN (IF p > HighBullAbove THEN "high" ELSE "medium")
    ELSE IF p < BearishBelow THEN (IF p < HighBearBelow THEN "high" ELSE "medium")
    ELSE (IF Abs(p - Half) > NeutralBand THEN "medium" ELSE "low")

predict_next_day(P, d) ==
    LET n == Len(d.Close)
    IN  IF P.best_model_name = NoModel THEN DefaultPrediction
        ELSE IF ~P.features[n] THEN DefaultPrediction
        ELSE LET p == P.best_model[FeatClass(d, n)].prob
             IN  [prediction |-> Direction(p), probability |-> p,
                  confidence |-> Confidence(p), model_used |-> P.best_model_name]

-----------------------------------------------------------------------------
(* StockPredictor.backtest_model *)

\* backtest_data = self.data.tail(days_back): its first row
WindowStart(n, days_back) == Max(1, n - days_back + 1)

\* every window row but the last, whatever its features
Evaluated_all(P, r, last) == [k \in 1..(last - r + 1) |-> r + k - 1]

\* the first loop: for window positions 1..m-1 (Python i-1 for i in
\* range(1, m)), the rows whose features are complete, in order
RECURSIVE Evaluated(_, _, _)
Evaluated(P, r, last) ==
    IF r > last THEN <<>>
    ELSE (IF P.features[r] THEN <<r>> ELSE <<>>) \o Evaluated(P, r + 1, last)

\* actual = backtest_data.iloc[i]['Next_Day_Direction'] where the features
\* were read from backtest_data.iloc[i-1:i]
ScoredLabelRow(r) == r + 1

\* actual_return = iloc[i+1]['Close'] / iloc[i]['Close'] - 1, with i the index
\* (from 0) into the list of predictions: k = i + 1 counts from 1 here
ReturnRow(lo, rows, k) == lo + k - 1

\* the simulated position's return for one step
StepReturn(pred, prob, actual_return) ==
    IF pred = 1 /\ prob > BullishAbove THEN actual_return
    ELSE IF pred = 0 /\ prob < BearishBelow THEN -actual_return
    ELSE 0

Agreements(predictions, actuals) ==
    Cardinality({k \in DOMAIN predictions : predictions[k] = actuals[k]})

\* the win rate over the steps that held a position only
WinRate_positions(strategy_returns) ==
    [wins |-> CountPos(strategy_returns),
     of |-> Cardinality({k \in DOMAIN strategy_returns : strategy_returns[k] # 0})]

WinRate(strategy_returns) ==
    [wins |-> CountPos(strategy_returns), of |-> Len(strategy_returns)]

TotalReturn(strategy_returns) == SumSeq(strategy_returns)

backtest_model(P, d, days_back) ==
    LET n    == Len(d.Close)
        lo   == WindowStart(n, days_back)
        rows == IF n = 0 THEN <<>> ELSE Evaluated(P, lo, n - 1)
        predictions   == [k \in DOMAIN rows |-> P.best_model[FeatClass(d, rows[k])].pred]
        probabilities == [k \in DOMAIN rows |-> P.best_model[FeatClass(d, rows[k])].prob]
        actuals       == [k \in DOMAIN rows |-> P.labels[ScoredLabelRow(rows[k])]]
        strategy_returns ==
            [k \in DOMAIN rows |->
                LET a == ReturnRow(lo, rows, k)
                IN  StepReturn(predictions[k], probabilities[k],
                               Ret(d.Close[a], d.Close[a + 1]))]
    IN  IF P.best_model_name = NoModel \/ rows = <<>> THEN [empty |-> TRUE]
        ELSE [empty            |-> FALSE,
              accuracy         |-> [hits |-> Agreements(predictions, actuals),
                                    of |-> Len(actuals)],
              total_return     |-> TotalReturn(strategy_returns),
              win_rate         |-> WinRate(strategy_returns),
              total_trades     |-> Len(predictions),
              avg_probability  |-> [sum |-> SumSeq(probabilities),
                                    of |-> Len(probabilities)],
              strategy_returns |-> strategy_returns,
              window_start     |-> lo,
              rows             |-> rows,
              predictions      |-> predictions,
              probabilities    |-> probabilities,
              actuals          |-> actuals]

-----------------------------------------------------------------------------
(* create_predictive_model and the AnalysisOrchestrator entry points *)

\* what create_predictive_model(data) does: "raised" or the trained predictor
create_predictive_model(d, idx, fit) ==
    LET P == NewPredictor(d)
    IN  IF InitRaises(d, idx) THEN [raised |-> TRUE, error |-> "AttributeError"]
        ELSE IF TrainRaises(P, d)
             THEN [raised |-> TRUE,
                   error |-> IF Len(d.Close) = 0 THEN "KeyError" ELSE "ValueError"]
        ELSE [raised |-> FALSE, error |-> "none",
              predictor |-> Trained(P, fit.outcome, fit.clf)]

\* db_manager.get_stock_data sets the index from record.date, a Date column
StoreIndex == "date"

perform_predictive_analysis(d, idx, fit) ==
    IF Len(d.Close) < MinDays THEN [error |-> "insufficient_data"]
    ELSE LET made == create_predictive_model(d, idx, fit)
         IN  IF made.raised THEN [error |-> made.error]
             ELSE [error |-> "none",
                   next_day_prediction |-> predict_next_day(made.predictor, d),
                   backtest_results |->
                       backtest_model(made.predictor, d, DefaultDaysBack),
                   trained |-> made.predictor.model_scores # <<>>]

get_prediction(d, fit) ==
    IF Len(d.Close) = 0 THEN [error |-> "no_data"]
    ELSE IF Len(d.Close) < MinDays THEN [error |-> "insufficient_data"]
    ELSE LET made == create_predictive_model(d, StoreIndex, fit)
         IN  IF made.raised THEN [error |-> made.error]
             ELSE [error |-> "none"] @@ predict_next_day(made.predictor, d)

\* one analysis section: the keyed error of the except branch, or a result
Section(raises) == IF raises THEN [error |-> "Exception"] ELSE [error |-> "none"]

\* str(stock_data.index.min().date()): index.min() of the store's frame is a
\* datetime.date, which has no date() method
DataPeriodRaises(idx) == idx # "DatetimeIndex"

get_comprehensive_analysis(d, tech_raises, seas_raises, fit) ==
    IF Len(d.Close) = 0 THEN [kind |-> "error", error |-> "no_data"]
    ELSE LET technical   == Section(tech_raises)
             seasonality == Section(seas_raises)
             predictive  == perform_predictive_analysis(d, StoreIndex, fit)
         IN  IF DataPeriodRaises(StoreIndex)
             THEN [kind |-> "error", error |-> "AttributeError"]
             ELSE [kind |-> "merged",
                   technical_analysis   |-> technical,
                   seasonality_analysis |-> seasonality,
                   predictive_analysis  |-> predictive,
                   summary              |-> [error |-> "none"]]

-----------------------------------------------------------------------------
(* The state machine: a client holding at most one StockPredictor for data *)

Blank == NewPredictor([Close |-> <<>>, Volume |-> 0])

Self ==
    [features |-> features, labels |-> labels, models |-> models,
     model_scores |-> model_scores, train_rows |-> train_rows,
     best_model_name |-> best_model_name, best_model |-> best_model]

Store(P) ==
    /\ features' = P.features
    /\ labels' = P.labels
    /\ models' = P.models
    /\ model_scores' = P.model_scores
    /\ train_rows' = P.train_rows
    /\ best_model_name' = P.best_model_name
    /\ best_model' = P.best_model

Keep == UNCHANGED <<features, labels, models, model_scores, train_rows,
                    best_model_name, best_model>>

\* the fits scikit-learn may produce on a frame: one per frame and seed
Fits == [outcome : [1..Len(Families) -> Outcomes], clf : Classifiers]

NoFit == [outcome |-> [k \in 1..Len(Families) |-> FAIL],
          clf |-> [c \in FeatClasses |-> [prob |-> 300, pred |-> 0]]]

\* the frames on which a family can be fitted at all
Fittable(d) ==
    LET P == NewPredictor(d)
    IN  /\ clean_data(P) # {}
        /\ ~TrainRaises(P, d)
        /\ ~FitRaises(P, clean_data(P))

Init ==
    /\ data \in Frames
    /\ sklearn \in (IF Fittable(data) THEN Fits ELSE {NoFit})
    /\ constructed = FALSE
    /\ features = Blank.features
    /\ labels = Blank.labels
    /\ models = Blank.models
    /\ model_scores = Blank.model_scores
    /\ train_rows = Blank.train_rows
    /\ best_model_name = Blank.best_model_name
    /\ best_model = Blank.best_model
    /\ result = [op |-> "none", raised |-> FALSE]

\* the client has made no call yet; a call's result does not feed back into
\* later calls, so the entry calls are explored from this state
Fresh == ~constructed /\ result.op = "none"

\* predictor = StockPredictor(data)
StockPredictor_init ==
    /\ Fresh
    /\ \E idx \in IndexKinds :
          IF InitRaises(data, idx)
          THEN /\ result' = [op |-> "StockPredictor", raised |-> TRUE]
               /\ UNCHANGED constructed
               /\ Keep
          ELSE /\ result' = [op |-> "StockPredictor", raised |-> FALSE]
               /\ constructed' = TRUE
               /\ Store(NewPredictor(data))
    /\ UNCHANGED <<data, sklearn>>

\* predictor.train_models()
train_models ==
    /\ constructed
    /\ IF TrainRaises(Self, data)
       THEN /\ result' = [op |-> "train_models", raised |-> TRUE]
            /\ Keep
       ELSE /\ result' = [op |-> "train_models", raised |-> FALSE]
            /\ Store(Trained(Self, sklearn.outcome, sklearn.clf))
    /\ UNCHANGED <<data, sklearn, constructed>>

\* predictor = create_predictive_model(data)
create_predictive_model_call ==
    /\ Fresh
    /\ \E idx \in IndexKinds :
          LET made == create_predictive_model(data, idx, sklearn)
          IN  IF made.raised
              THEN /\ result' = [op |-> "create_predictive_model", raised |-> TRUE,
                                 index |-> idx]
                   /\ UNCHANGED constructed
                   /\ Keep
              ELSE /\ result' = [op |-> "create_predictive_model", raised |-> FALSE,
                                 index |-> idx]
                   /\ constructed' = TRUE
                   /\ Store(made.predictor)
    /\ UNCHANGED <<data, sklearn>>

\* predictor.predict_next_day()
predict_next_day_call ==
    /\ constructed
    /\ result' = [op |-> "predict_next_day", raised |-> FALSE,
                  value |-> predict_next_day(Self, data)]
    /\ Keep
    /\ UNCHANGED <<data, sklearn, constructed>>

DaysBackArgs == 1..MaxDaysBack \cup {DefaultDaysBack}

\* predictor.backtest_model(days_back)
backtest_model_call ==
    /\ constructed
    /\ \E days_back \in DaysBackArgs :
          result' = [op |-> "backtest_model", raised |-> FALSE,
                     days_back |-> days_back,
                     value |-> backtest_model(Self, data, days_back)]
    /\ Keep
    /\ UNCHANGED <<data, sklearn, constructed>>

\* AnalysisOrchestrator._perform_predictive_analysis(data); the orchestrator
\* builds its own predictor
perform_predictive_analysis_call ==
    /\ Fresh
    /\ \E idx \in IndexKinds :
          result' = [op |-> "_perform_predictive_analysis", raised |-> FALSE,
                     index |-> idx,
                     value |-> perform_predictive_analysis(data, idx, sklearn)]
    /\ Keep
    /\ UNCHANGED <<data, sklearn, constructed>>

\* AnalysisOrchestrator.get_prediction(ticker), data being the ticker's rows
get_prediction_call ==
    /\ Fresh
    /\ result' = [op |-> "get_prediction", raised |-> FALSE,
                  value |-> get_prediction(data, sklearn)]
    /\ Keep
    /\ UNCHANGED <<data, sklearn, constructed>>

\* AnalysisOrchestrator.get_comprehensive_analysis(ticker)
get_comprehensive_analysis_call ==
    /\ Fresh
    /\ \E tech_raises \in BOOLEAN, seas_raises \in BOOLEAN :
          result' = [op |-> "get_comprehensive_analysis", raised |-> FALSE,
                     technical_raised |-> tech_raises,
                     seasonality_raised |-> seas_raises,
                     value |-> get_comprehensive_analysis(
                                   data, tech_raises, seas_raises, sklearn)]
    /\ Keep
    /\ UNCHANGED <<data, sklearn, constructed>>

Next ==
    \/ StockPredictor_init
    \/ train_models
    \/ create_predictive_model_call
    \/ predict_next_day_call
    \/ backtest_model_call
    \/ perform_predictive_analysis_call
    \/ get_prediction_call
    \/ get_comprehensive_analysis_call

Spec == Init /\ [][Next]_vars

-----------------------------------------------------------------------------
(* The probability mapping on its own: a trained predictor whose selected   *)
(* model gives the latest row any class-1 probability                       *)

MapFrame == [Close |-> Series("zigzag", MinDays, <<1>>), Volume |-> 1000]

AllProbs == 0..1000

MapPredictor == NewPredictor(MapFrame)

InitMap ==
    \E p \in AllProbs :
        LET fit == [outcome |-> [k \in 1..Len(Families) |-> 1],
                    clf |-> [c \in FeatClasses |->
                                [prob |-> p, pred |-> IF p > Half THEN 1 ELSE 0]]]
            P == Trained(MapPredictor, fit.outcome, fit.clf)
        IN  /\ data = MapFrame
            /\ sklearn = fit
            /\ constructed = TRUE
            /\ features = P.features
            /\ labels = P.labels
            /\ models = P.models
            /\ model_scores = P.model_scores
            /\ train_rows = P.train_rows
            /\ best_model_name = P.best_model_name
            /\ best_model = P.best_model
            /\ result = [op |-> "create_predictive_model", raised |-> FALSE,
                         index |-> "DatetimeIndex"]

NextMap == predict_next_day_call

SpecMap == InitMap /\ [][NextMap]_vars

-----------------------------------------------------------------------------
(* StockPredictor.prepare_features: the Bollinger position column *)

BB_Dev == 2               \* bb_std * 2

\* the sum of the w values of s that end at row i
RollingSum(s, i, w) == SumSeq(SubSeq(s, i - w + 1, i))

Squares(s) == [j \in DOMAIN s |-> s[j] * s[j]]

\* BB_Position at row i, with m = S/20 the rolling mean and
\* sd^2 = (20*Q - S^2) / (20*19) the rolling (ddof = 1) variance of the window:
\*   missing  when the window is short or upper - lower = 4*sd = 0 (0/0 = NaN)
\*   the position (c - m + 2*sd) / (4*sd) otherwise, which is above 1 or
\*   below 0 exactly when |c - m| > 2*sd, that is when
\*   19 * (20*c - S)^2 > 4 * 20 * (20*Q - S^2)
BB_Position(c, i) ==
    IF ~RollingDefined(i, BB_Window) THEN "missing"
    ELSE LET S == RollingSum(c, i, BB_Window)
             Q == RollingSum(Squares(c), i, BB_Window)
             dev == BB_Window * c[i] - S
             spread == BB_Window * Q - S * S
         IN  IF spread = 0 THEN "missing"
             ELSE IF (BB_Window - 1) * dev * dev > BB_Dev * BB_Dev * BB_Window * spread
                  THEN (IF dev > 0 THEN "above_one" ELSE "below_zero")
                  ELSE "in_unit_interval"

\* upper - lower > 0 at row i
BandWidthPositive(c, i) ==
    /\ RollingDefined(i, BB_Window)
    /\ \E j \in (i - BB_Window + 1)..i : c[j] # c[i]

-----------------------------------------------------------------------------
(* Dated frames: the PriceBar sequences given to the seasonality analyzer  *)
(* and the indicator engine. A date is [year, month, day].                  *)

MaxRows == 5              \* longest dated frame
StartClose == 64          \* close of the first row of a dated frame

IsLeap(y) == y % 4 = 0 /\ (y % 100 # 0 \/ y % 400 = 0)

\* calendar.monthrange(year, month)[1]
monthrange(y, m) ==
    IF m = 2 THEN (IF IsLeap(y) THEN 29 ELSE 28)
    ELSE IF m \in {4, 6, 9, 11} THEN 30 ELSE 31

FirstOfNextMonth(t) ==
    IF t.month < 12
    THEN [year |-> t.year, month |-> t.month + 1, day |-> 1]
    ELSE [year |-> t.year + 1, month |-> 1, day |-> 1]

\* the date k days after t
RECURSIVE AddDays(_, _)
AddDays(t, k) ==
    IF t.day + k <= monthrange(t.year, t.month)
    THEN [t EXCEPT !.day = t.day + k]
    ELSE AddDays(FirstOfNextMonth(t),
                 k - (monthrange(t.year, t.month) - t.day) - 1)

StartDates ==
    { [year |-> 2023, month |-> 1,  day |-> 30],
      [year |-> 2023, month |-> 2,  day |-> 25],
      [year |-> 2024, month |-> 2,  day |-> 26],
      [year |-> 1900, month |-> 2,  day |-> 25],
      [year |-> 2023, month |-> 4,  day |-> 27],
      [year |-> 2023, month |-> 12, day |-> 29] }

Gaps == {1, 2}            \* calendar days between consecutive rows
Moves == {"halve", "same", "double"}

Move(c, mv) ==
    CASE mv = "halve"  -> c \div 2
      [] mv = "double" -> c * 2
      [] OTHER         -> c

RECURSIVE Closes(_, _)
Closes(c, mvs) ==
    IF mvs = <<>> THEN <<c>> ELSE <<c>> \o Closes(Move(c, mvs[1]), Tail(mvs))

Dates(start, gap, n) == [i \in 1..n |-> AddDays(start, gap * (i - 1))]

EmptyFrame == [Close |-> <<>>, Volume |-> 0, Date |-> <<>>]

DatedFrames ==
    {EmptyFrame} \cup
    { [Close |-> Closes(StartClose, mvs), Volume |-> 1000,
       Date |-> Dates(start, gap, Len(mvs) + 1)] :
         mvs \in UNION {[1..k -> Moves] : k \in 0..(MaxRows - 1)},
         start \in StartDates, gap \in Gaps }

-----------------------------------------------------------------------------
(* analysis/seasonality_analysis.py: SeasonalityAnalyzer *)

empty(d) == Len(d.Close) = 0

\* Daily_Return = Close.pct_change(): NaN on the first row
Daily_Return_defined(i) == i >= 2
Daily_Return(c, i) == Ret(c[i - 1], c[i])

\* the sum of the daily returns of a set of rows
RECURSIVE SumOver(_, _)
SumOver(c, rows) ==
    IF rows = {} THEN 0
    ELSE LET i == CHOOSE x \in rows : TRUE
         IN  Daily_Return(c, i) + SumOver(c, rows \ {i})

\* the statistics of one bucket of rows, as the code computes them:
\* mean() skips the NaN return, while len() and (Daily_Return > 0), which is
\* False on NaN, run over every row of the bucket
BucketStats(d, rows) ==
    LET valid == {i \in rows : Daily_Return_defined(i)}
        gains == {i \in valid : Daily_Return(d.Close, i) > 0}
    IN  [rows          |-> rows,
         return_sum    |-> SumOver(d.Close, valid),
         return_count  |-> Cardinality(valid),
         positive_days |-> Cardinality(gains),
         total_days    |-> Cardinality(rows)]

MonthsOf(d) == {d.Date[i].month : i \in 1..Len(d.Close)}

\* analyze_monthly_seasonality: {} on an empty frame, else one entry for each
\* month that has rows
analyze_monthly_seasonality(d) ==
    [m \in MonthsOf(d) |->
        BucketStats(d, {i \in 1..Len(d.Close) : d.Date[i].month = m})]

\* the last two days of the month only
IsMonthEnd_last2(t) == t.day >= monthrange(t.year, t.month) - 1

\* day >= last_day_of_month - 2
IsMonthEnd(t) == t.day >= monthrange(t.year, t.month) - 2

\* analyze_month_end_effect: every row goes to one of the two lists, then
\* dropna() removes the NaN return of the first row from its list
analyze_month_end_effect(d) ==
    LET valid == {i \in 1..Len(d.Close) : Daily_Return_defined(i)}
        month_end_days == {i \in valid : IsMonthEnd(d.Date[i])}
        other_days     == {i \in valid : ~IsMonthEnd(d.Date[i])}
    IN  [month_end  |-> BucketStats(d, month_end_days),
         other_days |-> BucketStats(d, other_days)]

\* thresholds of get_seasonal_forecast
AvgReturnPermille == 1        \* avg_return > 0.001, < -0.001
NeutralReturnPer10k == 5      \* abs(avg_return) > 0.0005
WinBullPct == 55              \* win_rate > 0.55
WinHighBullPct == 60          \* win_rate > 0.6
WinBearPct == 45              \* win_rate < 0.45
WinHighBearPct == 40          \* win_rate < 0.4

\* comparisons of avg_return = return_sum / return_count (in 1/RetScale) and
\* win_rate = positive_days / total_days with the thresholds; a NaN mean
\* (no valid return in the bucket) compares False with everything
AvgAbove(st, num, den) ==
    st.return_count > 0 /\ st.return_sum * den > num * RetScale * st.return_count
AvgBelow(st, num, den) ==
    st.return_count > 0 /\ st.return_sum * den < num * RetScale * st.return_count
WinAbove(st, pct) == st.positive_days * 100 > pct * st.total_days
WinBelow(st, pct) == st.positive_days * 100 < pct * st.total_days

\* the recommendation and confidence of get_seasonal_forecast for a month
\* that has statistics
MonthForecast(st) ==
    IF AvgAbove(st, AvgReturnPermille, 1000) /\ WinAbove(st, WinBullPct)
    THEN [recommendation |-> "bullish",
          confidence |-> IF WinAbove(st, WinHighBullPct) THEN "high" ELSE "medium"]
    ELSE IF AvgBelow(st, -AvgReturnPermille, 1000) /\ WinBelow(st, WinBearPct)
    THEN [recommendation |-> "bearish",
          confidence |-> IF WinBelow(st, WinHighBearPct) THEN "high" ELSE "medium"]
    ELSE [recommendation |-> "neutral",
          confidence |-> IF \/ AvgAbove(st, NeutralReturnPer10k, 10000)
                            \/ AvgBelow(st, -NeutralReturnPer10k, 10000)
                         THEN "medium" ELSE "low"]

\* get_seasonal_forecast(target_month): {} on an empty frame
get_seasonal_forecast(d, target_month) ==
    IF empty(d) THEN [kind |-> "empty_dict"]
    ELSE LET monthly_stats == analyze_monthly_seasonality(d)
         IN  IF target_month \in DOMAIN monthly_stats
             THEN [kind |-> "forecast", has_stats |-> TRUE,
                   recommendation |-> MonthForecast(monthly_stats[target_month]).recommendation,
                   confidence |-> MonthForecast(monthly_stats[target_month]).confidence]
             ELSE [kind |-> "forecast", has_stats |-> FALSE,
                   recommendation |-> "neutral", confidence |-> "low"]

\* thresholds of _calculate_seasonality_strength, in 1/10000
StrongPer10k == 50            \* std_dev > 0.005
ModeratePer10k == 20          \* std_dev > 0.002
WeakPer10k == 10              \* std_dev > 0.001

\* avg_return of a bucket in 1/10000
AvgPer10k(st) == (st.return_sum * 10000) \div (st.return_count * RetScale)

SetMax(S) == CHOOSE x \in S : \A y \in S : y <= x
SetMin(S) == CHOOSE x \in S : \A y \in S : x <= y

RECURSIVE SumFn(_, _)
SumFn(f, S) ==
    IF S = {} THEN 0
    ELSE LET x == CHOOSE y \in S : TRUE IN f[x] + SumFn(f, S \ {x})

\* two of at most 12 monthly means that differ by more than this put the
\* population standard deviation above StrongPer10k:
\*   std >= spread / sqrt(2 * 12) > 250 / 4.9 > 50
SpreadCap == 250

\* np.std(returns) of the monthly means against the three thresholds: with
\* k values b (shifted by their minimum), std > T iff k*sum(b^2) - sum(b)^2 >
\* k^2 * T^2; a NaN mean makes std NaN, which passes no threshold
calculate_seasonality_strength(monthly_stats) ==
    LET months == DOMAIN monthly_stats
    IN  IF months = {} THEN "none"
        ELSE IF \E m \in months : monthly_stats[m].return_count = 0 THEN "none"
        ELSE LET avg == [m \in months |-> AvgPer10k(monthly_stats[m])]
                 lo  == SetMin({avg[m] : m \in months})
                 hi  == SetMax({avg[m] : m \in months})
                 b   == [m \in months |-> avg[m] - lo]
                 sq  == [m \in months |-> b[m] * b[m]]
                 k   == Cardinality(months)
                 V   == k * SumFn(sq, months) - SumFn(b, months) * SumFn(b, months)
             IN  IF hi - lo > SpreadCap THEN "strong"
                 ELSE IF V > k * k * StrongPer10k * StrongPer10k THEN "strong"
                 ELSE IF V > k * k * ModeratePer10k * ModeratePer10k THEN "moderate"
                 ELSE IF V > k * k * WeakPer10k * WeakPer10k THEN "weak"
                 ELSE "none"

\* month_returns[x] > month_returns[y]; False when either mean is NaN
AvgGreater(x, y) ==
    /\ x.return_count > 0 /\ y.return_count > 0
    /\ x.return_sum * y.return_count > y.return_sum * x.return_count

\* max(month_returns, key=month_returns.get): months are visited in the
\* order 1..12 and a later month replaces the best only when strictly greater
RECURSIVE MaxMonth(_, _, _)
MaxMonth(monthly_stats, m, best) ==
    IF m > 12 THEN best
    ELSE IF m \notin DOMAIN monthly_stats THEN MaxMonth(monthly_stats, m + 1, best)
    ELSE IF best = 0 THEN MaxMonth(monthly_stats, m + 1, m)
    ELSE IF AvgGreater(monthly_stats[m], monthly_stats[best])
         THEN MaxMonth(monthly_stats, m + 1, m)
         ELSE MaxMonth(monthly_stats, m + 1, best)

\* _generate_seasonality_summary, called on a non-empty frame (monthly and
\* quarterly statistics both have entries)
generate_seasonality_summary(d) ==
    LET monthly_stats == analyze_monthly_seasonality(d)
    IN  [best_month |-> MaxMonth(monthly_stats, 1, 0),
         seasonality_strength |-> calculate_seasonality_strength(monthly_stats)]

\* get_comprehensive_seasonality_report: {} on an empty frame
get_comprehensive_seasonality_report(d) ==
    IF empty(d) THEN [kind |-> "empty_dict"]
    ELSE [kind |-> "report",
          monthly_patterns |-> analyze_monthly_seasonality(d),
          month_end_effect |-> analyze_month_end_effect(d),
          summary |-> generate_seasonality_summary(d)]

-----------------------------------------------------------------------------
(* The seasonality analyzer as a state machine: an analyzer is built on a  *)
(* dated frame and one of its methods is called                             *)

\* no predictor exists
Idle ==
    /\ constructed = FALSE
    /\ features = Blank.features
    /\ labels = Blank.labels
    /\ models = Blank.models
    /\ model_scores = Blank.model_scores
    /\ train_rows = Blank.train_rows
    /\ best_model_name = Blank.best_model_name
    /\ best_model = Blank.best_model
    /\ result = [op |-> "none", raised |-> FALSE]

OnlyResult == Keep /\ UNCHANGED <<data, sklearn, constructed>>

InitSeason ==
    /\ data \in DatedFrames
    /\ sklearn = NoFit
    /\ Idle

\* SeasonalityAnalyzer(data).analyze_monthly_seasonality()
analyze_monthly_seasonality_call ==
    /\ Fresh
    /\ result' = [op |-> "analyze_monthly_seasonality", raised |-> FALSE,
                  value |-> analyze_monthly_seasonality(data)]
    /\ OnlyResult

\* SeasonalityAnalyzer(data).analyze_month_end_effect()
analyze_month_end_effect_call ==
    /\ Fresh
    /\ result' = [op |-> "analyze_month_end_effect", raised |-> FALSE,
                  value |-> IF empty(data) THEN [kind |-> "empty_dict"]
                            ELSE [kind |-> "effect"] @@ analyze_month_end_effect(data)]
    /\ OnlyResult

TargetMonths == 1..12

\* SeasonalityAnalyzer(data).get_seasonal_forecast(target_month)
get_seasonal_forecast_call ==
    /\ Fresh
    /\ \E target_month \in TargetMonths :
          result' = [op |-> "get_seasonal_forecast", raised |-> FALSE,
                     target_month |-> target_month,
                     value |-> get_seasonal_forecast(data, target_month)]
    /\ OnlyResult

\* SeasonalityAnalyzer(data).get_comprehensive_seasonality_report()
get_comprehensive_seasonality_report_call ==
    /\ Fresh
    /\ result' = [op |-> "get_comprehensive_seasonality_report", raised |-> FALSE,
                  value |-> get_comprehensive_seasonality_report(data)]
    /\ OnlyResult

NextSeason ==
    \/ analyze_monthly_seasonality_call
    \/ analyze_month_end_effect_call
    \/ get_seasonal_forecast_call
    \/ get_comprehensive_seasonality_report_call

SpecSeason == InitSeason /\ [][NextSeason]_vars

-----------------------------------------------------------------------------
(* analysis/technical_indicators.py: the moving-average columns *)

DefaultPeriods == {5, 10, 20, 50, 200}

\* periods arguments tried besides the default
PeriodArgs == {{2, 4}, {3, 7}, DefaultPeriods}

\* calculate_moving_averages(periods): a copy of the frame with, for each
\* period that passes `period <= len(self.data)`, the columns MA_p (rolling
\* mean: missing on the first p-1 rows) and EMA_p (ewm(span=p).mean():
\* defined on every row); TRUE marks a defined value
calculate_moving_averages(d, periods) ==
    LET n == Len(d.Close)
        added == {p \in periods : p <= n}
    IN  [kind |-> "frame",
         rows |-> n,
         MA   |-> [p \in added |-> [i \in 1..n |-> RollingDefined(i, p)]],
         EMA  |-> [p \in added |-> [i \in 1..n |-> TRUE]]]

\* calculate_all_indicators: the frame itself when it is empty, else the
\* frame of calculate_moving_averages() with the other indicator columns
calculate_all_indicators(d) ==
    IF empty(d) THEN [kind |-> "frame", rows |-> 0, MA |-> <<>>, EMA |-> <<>>]
    ELSE calculate_moving_averages(d, DefaultPeriods)

-----------------------------------------------------------------------------
(* The three analyzers, each called on its own on a dated frame *)

InitAnalyzers ==
    /\ data \in DatedFrames
    /\ sklearn = NoFit
    /\ Idle

\* TechnicalIndicators(data).calculate_moving_averages(periods)
calculate_moving_averages_call ==
    /\ Fresh
    /\ \E periods \in PeriodArgs :
          result' = [op |-> "calculate_moving_averages", raised |-> FALSE,
                     periods |-> periods,
                     value |-> calculate_moving_averages(data, periods)]
    /\ OnlyResult

\* calculate_all_indicators(data)
calculate_all_indicators_call ==
    /\ Fresh
    /\ result' = [op |-> "calculate_all_indicators", raised |-> FALSE,
                  periods |-> DefaultPeriods,
                  value |-> calculate_all_indicators(data)]
    /\ OnlyResult

NextAnalyzers ==
    \/ calculate_moving_averages_call
    \/ calculate_all_indicators_call
    \/ get_comprehensive_seasonality_report_call
    \/ perform_predictive_analysis_call
    \/ create_predictive_model_call

SpecAnalyzers == InitAnalyzers /\ [][NextAnalyzers]_vars

-----------------------------------------------------------------------------
(* TechnicalIndicators.get_technical_summary: the two indicators read by   *)
(* the orchestrator's summary                                               *)

MA20_Window == 20         \* rolling(window=20)
RSI_Period == 14          \* calculate_rsi(period=14)

NaN == [nan |-> TRUE]
Num(v) == [nan |-> FALSE, value |-> v]

\* the RSI levels a history with both gains and losses may have
RSILevels == {20, 50, 80}

\* rsi.iloc[-1] of ta.momentum.RSIIndicator(Close, 14): NaN before 14 rows;
\* 100 when the history has no loss, 0 when it has losses and no gain; a
\* history without any change gives 100 or NaN, depending on the library
\* release; otherwise a value between, left open here
RSIValues(d) ==
    LET c == d.Close
        n == Len(c)
        gain == \E i \in 2..n : c[i] > c[i - 1]
        loss == \E i \in 2..n : c[i] < c[i - 1]
    IN  IF n < RSI_Period THEN {NaN}
        ELSE IF gain /\ ~loss THEN {Num(100)}
        ELSE IF loss /\ ~gain THEN {Num(0)}
        ELSE IF ~gain /\ ~loss THEN {NaN, Num(100)}
        ELSE {Num(v) : v \in RSILevels}

\* price_vs_ma20 = (Close - ma_20) / ma_20 * 100, a percentage, kept as the
\* fraction num/den; NaN while fewer than 20 rows exist
price_vs_ma20(d) ==
    LET c == d.Close
        n == Len(c)
    IN  IF ~RollingDefined(n, MA20_Window) THEN NaN
        ELSE LET S == RollingSum(c, n, MA20_Window)
             IN  [nan |-> FALSE, num |-> (MA20_Window * c[n] - S) * 100, den |-> S]

\* get_technical_summary(): {} on an empty frame
get_technical_summary(d, rsi) ==
    IF empty(d) THEN [kind |-> "empty_dict"]
    ELSE [kind |-> "summary", rsi |-> rsi, price_vs_ma20 |-> price_vs_ma20(d)]

-----------------------------------------------------------------------------
(* AnalysisOrchestrator._generate_analysis_summary *)

RSI_Overbought == 70      \* rsi > 70
RSI_Oversold == 30        \* rsi < 30
MA20_BandPer100 == 5      \* price_vs_ma20 > 0.05, < -0.05

\* `if rsi:` is False on None and on 0.0, True on NaN; a comparison with NaN
\* is False
RsiAbove(rsi, t) == ~rsi.nan /\ rsi.value # 0 /\ rsi.value > t
RsiBelow(rsi, t) == ~rsi.nan /\ rsi.value # 0 /\ rsi.value < t

\* price_vs_ma20 > 0.05 and price_vs_ma20 < -0.05, on the stored percentage
PctAbove(v) == ~v.nan /\ v.num * 100 > MA20_BandPer100 * v.den
PctBelow(v) == ~v.nan /\ v.num * 100 < -(MA20_BandPer100 * v.den)

\* the technical part: the RSI insight and the moving-average rule
TechnicalRules(s, technical_analysis) ==
    IF technical_analysis.error # "none"
          \/ technical_analysis.current_indicators.kind = "empty_dict"
    THEN s
    ELSE LET ti == technical_analysis.current_indicators
             s1 == IF RsiAbove(ti.rsi, RSI_Overbought)
                   THEN [s EXCEPT
                           !.key_insights = Append(@, "RSI overbought"),
                           !.recommendations = Append(@, "Consider taking profits")]
                   ELSE IF RsiBelow(ti.rsi, RSI_Oversold)
                   THEN [s EXCEPT
                           !.key_insights = Append(@, "RSI oversold"),
                           !.recommendations = Append(@, "Potential buying opportunity")]
                   ELSE s
         IN  IF PctAbove(ti.price_vs_ma20)
             THEN [s1 EXCEPT !.key_insights = Append(@, "Price above 20-day MA"),
                             !.overall_sentiment = "bullish"]
             ELSE IF PctBelow(ti.price_vs_ma20)
             THEN [s1 EXCEPT !.key_insights = Append(@, "Price below 20-day MA"),
                             !.overall_sentiment = "bearish"]
             ELSE s1

\* the seasonality part: the best-month rule and the strength insight
SeasonalityRules(s, seasonality_analysis, current_month) ==
    IF seasonality_analysis.error # "none" \/ seasonality_analysis.kind = "empty_dict"
    THEN s
    ELSE LET ss == seasonality_analysis.summary
             s1 == IF current_month = ss.best_month
                   THEN [s EXCEPT
                           !.key_insights = Append(@, "Best performing month"),
                           !.overall_sentiment =
                               IF @ = "neutral" THEN "bullish" ELSE @]
                   ELSE s
         IN  IF ss.seasonality_strength = "strong"
             THEN [s1 EXCEPT !.key_insights = Append(@, "Strong seasonal patterns")]
             ELSE s1

\* f'High confidence {pred_value} prediction for next day'
HighInsight(pred_value) ==
    CASE pred_value = "bullish" -> "High confidence bullish prediction"
      [] pred_value = "bearish" -> "High confidence bearish prediction"
      [] OTHER                  -> "High confidence neutral prediction"

\* the prediction part without its effect on the confidence level
PredictionRules_direction_only(s, predictive_analysis) ==
    IF predictive_analysis.error # "none" THEN s
    ELSE LET pred_value == predictive_analysis.next_day_prediction.prediction
         IN  IF pred_value \in {"bullish", "bearish"} /\ s.overall_sentiment = "neutral"
             THEN [s EXCEPT !.overall_sentiment = pred_value]
             ELSE s

\* the prediction part
PredictionRules(s, predictive_analysis) ==
    IF predictive_analysis.error # "none" THEN s
    ELSE LET prediction == predictive_analysis.next_day_prediction
             pred_value == prediction.prediction
             s1 == IF pred_value = "bullish" /\ s.overall_sentiment = "neutral"
                   THEN [s EXCEPT !.overall_sentiment = "bullish"]
                   ELSE IF pred_value = "bearish" /\ s.overall_sentiment = "neutral"
                   THEN [s EXCEPT !.overall_sentiment = "bearish"]
                   ELSE s
         IN  IF prediction.confidence = "high"
             THEN [s1 EXCEPT !.confidence_level = "high",
                             !.key_insights = Append(@, HighInsight(pred_value))]
             ELSE IF prediction.confidence = "low"
             THEN [s1 EXCEPT !.confidence_level = "low"]
             ELSE s1

\* the final recommendation
FinalRecommendation(s) ==
    LET text ==
          IF s.overall_sentiment = "bullish"
          THEN (IF s.confidence_level = "high" THEN "Strong buy signal"
                ELSE "Moderate buy signal")
          ELSE IF s.overall_sentiment = "bearish"
          THEN (IF s.confidence_level = "high" THEN "Strong sell signal"
                ELSE "Moderate sell signal")
          ELSE "Neutral outlook"
    IN  [s EXCEPT !.recommendations = Append(@, text)]

generate_analysis_summary(technical_analysis, seasonality_analysis, predictive_analysis, current_month) ==
    LET s0 == [overall_sentiment |-> "neutral", confidence_level |-> "medium",
               key_insights |-> <<>>, recommendations |-> <<>>]
        s1 == TechnicalRules(s0, technical_analysis)
        s2 == SeasonalityRules(s1, seasonality_analysis, current_month)
        s3 == PredictionRules(s2, predictive_analysis)
    IN  FinalRecommendation(s3)

-----------------------------------------------------------------------------
(* The orchestrator's three sections and its summary on one frame *)

SummaryBase == 100        \* level of the closes before the last row
SummaryLens == {15, 20, 100}
SummaryShapes == {"zigzag", "flat", "up", "down"}
LastCloses == {94, 95, 96, 100, 101, 105, 106, 107, 130}
SummaryStart == [year |-> 2023, month |-> 1, day |-> 2]
SummaryProbs == {100, 300, 450, 550, 700, 900}

SummaryClose(shape, n, i) ==
    CASE shape = "zigzag" -> SummaryBase - 1 + 2 * (i % 2)
      [] shape = "up"     -> SummaryBase + i
      [] shape = "down"   -> SummaryBase + (n - i)
      [] OTHER            -> SummaryBase

\* n - 1 generated rows and a free last close
SummaryFrames ==
    { [Close |-> [i \in 1..n |-> IF i < n THEN SummaryClose(shape, n, i) ELSE last],
       Volume |-> 1000,
       Date |-> Dates(SummaryStart, 1, n)] :
         shape \in SummaryShapes, n \in SummaryLens, last \in LastCloses }

\* the fits tried on a frame that can be fitted: every family fails, or all
\* score alike and the selected model gives every row the probability p
SummaryFits ==
    {NoFit} \cup
    { [outcome |-> [k \in 1..Len(Families) |-> 1],
       clf |-> [c \in FeatClasses |->
                   [prob |-> p, pred |-> IF p > Half THEN 1 ELSE 0]]] :
         p \in SummaryProbs }

\* _perform_technical_analysis
perform_technical_analysis(d, rsi, raises) ==
    IF raises THEN [error |-> "Exception"]
    ELSE [error |-> "none", current_indicators |-> get_technical_summary(d, rsi)]

\* _perform_seasonality_analysis, the summary part of the report
perform_seasonality_analysis(d, raises) ==
    IF raises THEN [error |-> "Exception", kind |-> "error"]
    ELSE IF empty(d) THEN [error |-> "none", kind |-> "empty_dict"]
    ELSE [error |-> "none", kind |-> "report",
          summary |-> generate_seasonality_summary(d)]

\* the part of _perform_predictive_analysis that the summary reads
PredictionSection(d, fit) ==
    LET pa == perform_predictive_analysis(d, "DatetimeIndex", fit)
    IN  IF pa.error # "none" THEN [error |-> pa.error]
        ELSE [error |-> "none", next_day_prediction |-> pa.next_day_prediction]

InitSummary ==
    /\ data \in SummaryFrames
    /\ sklearn \in (IF Fittable(data) THEN SummaryFits ELSE {NoFit})
    /\ Idle

Months == 1..12

\* the three sections of get_comprehensive_analysis (lines 50-56) handed to
\* _generate_analysis_summary; datetime.now().month is any month
generate_analysis_summary_call ==
    /\ Fresh
    /\ LET predictive == PredictionSection(data, sklearn)
           seasonal   == [raises \in BOOLEAN |->
                             perform_seasonality_analysis(data, raises)]
       IN  \E rsi \in RSIValues(data), current_month \in Months,
              tech_raises \in BOOLEAN, seas_raises \in BOOLEAN :
              LET technical   == perform_technical_analysis(data, rsi, tech_raises)
                  seasonality == seasonal[seas_raises]
              IN  result' = [op |-> "_generate_analysis_summary", raised |-> FALSE,
                             technical_analysis |-> technical,
                             seasonality_analysis |-> seasonality,
                             predictive_analysis |-> predictive,
                             current_month |-> current_month,
                             value |-> generate_analysis_summary(
                                          technical, seasonality, predictive,
                                          current_month)]
    /\ OnlyResult

\* TechnicalIndicators(data).get_technical_summary()
get_technical_summary_call ==
    /\ Fresh
    /\ \E rsi \in RSIValues(data) :
          result' = [op |-> "get_technical_summary", raised |-> FALSE,
                     value |-> get_technical_summary(data, rsi)]
    /\ OnlyResult

NextSummary ==
    \/ generate_analysis_summary_call
    \/ get_technical_summary_call

SpecSummary == InitSummary /\ [][NextSummary]_vars

-----------------------------------------------------------------------------
(* TechnicalIndicators.calculate_trend_signals *)

MA50_Window == 50         \* rolling(window=50)
MA200_Window == 200       \* rolling(window=200)
MACD_Slow == 26           \* window_slow = 26
MACD_Sign == 9            \* window_sign = 9

\* np.where(a > b, 1, -1): a comparison with a NaN average is False, so the
\* vote of a row without its averages is -1
ma_trend_short(c, i) ==
    IF RollingDefined(i, MA20_Window)
          /\ MA20_Window * c[i] > RollingSum(c, i, MA20_Window)
    THEN 1 ELSE -1

ma_trend_medium(c, i) ==
    IF RollingDefined(i, MA20_Window) /\ RollingDefined(i, MA50_Window)
          /\ MA50_Window * RollingSum(c, i, MA20_Window)
                > MA20_Window * RollingSum(c, i, MA50_Window)
    THEN 1 ELSE -1

ma_trend_long(c, i) ==
    IF RollingDefined(i, MA50_Window) /\ RollingDefined(i, MA200_Window)
          /\ MA200_Window * RollingSum(c, i, MA50_Window)
                > MA50_Window * RollingSum(c, i, MA200_Window)
    THEN 1 ELSE -1

\* the sign of macd - macd_signal of the ta library at a row
Signs == {"neg", "zero", "pos"}

\* what the library may give on rows where the sign is not fixed by the
\* closes: the signs of even and odd rows
SignPatterns == [0..1 -> Signs]

\* macd is NaN before row 26 and its 9-period signal before row 34; on a
\* history without any change both are exactly 0 (ewm keeps a constant
\* series constant); at the first change after a flat history macd moves with
\* the close and the signal follows it by a fifth; elsewhere the sign is the
\* library's
MacdDiffSign(c, i, pattern) ==
    IF i < MACD_Slow + MACD_Sign - 1 THEN "nan"
    ELSE IF \A j \in 1..i : c[j] = c[1] THEN "zero"
    ELSE IF \A j \in 1..(i - 1) : c[j] = c[1]
         THEN (IF c[i] > c[1] THEN "pos" ELSE "neg")
    ELSE pattern[i % 2]

\* (macd > signal) & (macd.shift(1) <= signal.shift(1)); the shifted
\* comparison is False on the first row and on NaN
macd_bullish(c, i, pattern) ==
    /\ MacdDiffSign(c, i, pattern) = "pos"
    /\ i > 1
    /\ MacdDiffSign(c, i - 1, pattern) \in {"neg", "zero"}

\* (macd < signal) & (macd.shift(1) >= signal.shift(1))
macd_bearish(c, i, pattern) ==
    /\ MacdDiffSign(c, i, pattern) = "neg"
    /\ i > 1
    /\ MacdDiffSign(c, i - 1, pattern) \in {"pos", "zero"}

\* the signals of one row; np.where gives numbers, never NaN, and
\* overall_trend, the mean of three numbers, is kept as their sum (three
\* times the mean)
TrendRow(c, i, pattern) ==
    [ma_trend_short  |-> Num(ma_trend_short(c, i)),
     ma_trend_medium |-> Num(ma_trend_medium(c, i)),
     ma_trend_long   |-> Num(ma_trend_long(c, i)),
     overall_trend3  |-> Num(ma_trend_short(c, i) + ma_trend_medium(c, i)
                                + ma_trend_long(c, i)),
     macd_diff       |-> MacdDiffSign(c, i, pattern),
     macd_bullish    |-> macd_bullish(c, i, pattern),
     macd_bearish    |-> macd_bearish(c, i, pattern)]

\* calculate_trend_signals(): a dict of series, one value per row, here the
\* sequence of the rows' signals; on a frame without columns data['Close']
\* raises KeyError
calculate_trend_signals(d, pattern) ==
    IF empty(d) THEN [raised |-> TRUE, error |-> "KeyError"]
    ELSE [raised |-> FALSE,
          rows |-> [i \in 1..Len(d.Close) |-> TrendRow(d.Close, i, pattern)]]


\* the keys of the dict calculate_trend_signals returns
SignalKeys ==
    {"ma_trend_short", "ma_trend_medium", "ma_trend_long", "overall_trend",
     "rsi_oversold", "rsi_overbought", "macd_bullish", "macd_bearish"}

\* _perform_technical_analysis, lines 96-98:
\*   latest_trend = {}
\*   if not trend_signals: latest_trend = trend_signals.iloc[-1].to_dict()
\* `not` of a dict is True only for a dict without keys
latest_trend(trend_signals) ==
    IF SignalKeys = {}
    THEN [kind |-> "row", value |-> trend_signals.rows[Len(trend_signals.rows)]]
    ELSE [kind |-> "empty_dict"]

\* _perform_technical_analysis: the 'trend_signals' entry of the section; an
\* exception of a step gives {'error': ...}
technical_trend_signals(d, pattern) ==
    LET trend_signals == calculate_trend_signals(d, pattern)
    IN  IF trend_signals.raised THEN [error |-> trend_signals.error]
        ELSE [error |-> "none", trend_signals |-> latest_trend(trend_signals)]

\* get_trend_analysis: the entry is built by trend_signals.empty, and a dict
\* has no attribute 'empty': the AttributeError is caught and the result is
\* {'error': ...}
get_trend_analysis(d, pattern) ==
    LET trend_signals == calculate_trend_signals(d, pattern)
    IN  IF empty(d) THEN [error |-> "No data found"]
        ELSE IF trend_signals.raised THEN [error |-> trend_signals.error]
        ELSE [error |-> "AttributeError"]

-----------------------------------------------------------------------------
(* The trend signals, called on their own and through the orchestrator *)

InitTrend ==
    /\ data \in Frames
    /\ sklearn = NoFit
    /\ Idle

\* TechnicalIndicators(data).calculate_trend_signals()
calculate_trend_signals_call ==
    /\ Fresh
    /\ \E pattern \in SignPatterns :
          LET r == calculate_trend_signals(data, pattern)
          IN  result' = [op |-> "calculate_trend_signals", raised |-> r.raised,
                         value |-> r]
    /\ OnlyResult

\* AnalysisOrchestrator._perform_technical_analysis(data)
technical_trend_signals_call ==
    /\ Fresh
    /\ \E pattern \in SignPatterns :
          result' = [op |-> "_perform_technical_analysis", raised |-> FALSE,
                     signals |-> calculate_trend_signals(data, pattern),
                     value |-> technical_trend_signals(data, pattern)]
    /\ OnlyResult

\* AnalysisOrchestrator.get_trend_analysis(ticker) on the stored rows
get_trend_analysis_call ==
    /\ Fresh
    /\ \E pattern \in SignPatterns :
          result' = [op |-> "get_trend_analysis", raised |-> FALSE,
                     signals |-> calculate_trend_signals(data, pattern),
                     value |-> get_trend_analysis(data, pattern)]
    /\ OnlyResult

NextTrend ==
    \/ calculate_trend_signals_call
    \/ technical_trend_signals_call
    \/ get_trend_analysis_call

SpecTrend == InitTrend /\ [][NextTrend]_vars

-----------------------------------------------------------------------------
(* backend/database: the stock_data table and DatabaseManager *)

Tickers == {"AAA", "BBB"}
Days == 1..3                      \* calendar days, in order
Today == SetMax(Days)             \* date.today(): no bar is later

\* the table as the number of stored rows of each (ticker, date)
Keys == Tickers \X Days
EmptyStore == [k \in Keys |-> 0]

\* the frames handed to the store: the dates of the rows, in order, and
\* whether the DatetimeIndex carries a time zone (yfinance's history() gives
\* one in its current releases, none in old ones)
IndexZones == {"naive", "aware"}
NewFrames ==
    {[dates |-> s, tz |-> z] :
        s \in {q \in UNION {[1..n -> Days] : n \in 0..2} :
                  \A j \in 1..(Len(q) - 1) : q[j] <= q[j + 1]},
        z \in IndexZones}

StoredDates(store, ticker) == {d \in Days : store[<<ticker, d>>] > 0}

\* get_latest_date: the largest stored date; the callers test it for None
HasLatest(store, ticker) == StoredDates(store, ticker) # {}
get_latest_date(store, ticker) == SetMax(StoredDates(store, ticker))

\* the number of rows of a list of dates that carry the date d
CountOf(dates, d) == Cardinality({j \in DOMAIN dates : dates[j] = d})

\* PrimaryKeyConstraint('date', 'ticker'): the bulk insert raises
\* IntegrityError when a row's key is stored already or twice in the batch
IntegrityError(store, ticker, dates) ==
    \E d \in Days : CountOf(dates, d) > 0 /\ store[<<ticker, d>>] + CountOf(dates, d) > 1

Inserted(store, ticker, dates) ==
    [k \in Keys |-> IF k[1] = ticker THEN store[k] + CountOf(dates, k[2]) ELSE store[k]]

\* add_stock_data: bulk insert and commit; on an exception rollback, a
\* message, and nothing is returned or raised
add_stock_data(store, ticker, new) ==
    IF IntegrityError(store, ticker, new.dates) THEN store
    ELSE Inserted(store, ticker, new.dates)

\* new_data[new_data.index > pd.Timestamp(latest_date)]: comparing an index
\* with a time zone to the naive timestamp raises TypeError
FilterRaises(new) == new.tz = "aware"
LaterThan(dates, latest) == SelectSeq(dates, LAMBDA d : d > latest)

\* update_stock_data: the store afterwards and the returned count
update_stock_data(store, ticker, new) ==
    LET filters == HasLatest(store, ticker)
        dates == IF filters /\ ~FilterRaises(new)
                 THEN LaterThan(new.dates, get_latest_date(store, ticker))
                 ELSE new.dates
    IN  IF filters /\ FilterRaises(new) THEN [store |-> store, returned |-> 0]
        ELSE IF dates = <<>> THEN [store |-> store, returned |-> 0]
        ELSE IF IntegrityError(store, ticker, dates) THEN [store |-> store, returned |-> 0]
        ELSE [store |-> Inserted(store, ticker, dates), returned |-> Len(dates)]

\* get_stock_data(ticker): the stored rows by order_by(date), here their dates
RECURSIVE RowsFrom(_, _, _)
RowsFrom(store, ticker, d) ==
    IF d > Today THEN <<>>
    ELSE [j \in 1..store[<<ticker, d>>] |-> d] \o RowsFrom(store, ticker, d + 1)

get_stock_data(store, ticker) == RowsFrom(store, ticker, SetMin(Days))

\* get_tickers_with_data: the distinct tickers of the table
get_tickers_with_data(store) ==
    LET has == {t \in Tickers : HasLatest(store, t)}
    IN  IF has = {} THEN <<>>
        ELSE IF has = Tickers THEN <<"AAA", "BBB">>
        ELSE <<CHOOSE t \in has : TRUE>>

-----------------------------------------------------------------------------
(* backend/scrapers/data_collector.py *)

\* what fetch_stock_data returns: None, or a frame with rows
NoFrame == [dates |-> <<>>, tz |-> "None"]
Fetched == {NoFrame} \cup {f \in NewFrames : f.dates # <<>>}

\* the attributes of the module `time` that the collector uses;
\* data_collector.py imports `time` and, from datetime, only datetime and date
TimeAttributes == {"sleep"}

NoResults == [successful |-> <<>>, failed |-> <<>>, total_records |-> 0]

\* one pass of the loop of collect_historical_data (lines 86-130) for a
\* ticker: the store and the results afterwards
ProcessTicker(store, results, ticker, fetched) ==
    LET fail == [store |-> store,
                 results |-> [results EXCEPT !.failed = Append(@, ticker)]]
        good(s, n) == [store |-> s,
                       results |-> [results EXCEPT !.successful = Append(@, ticker),
                                                   !.total_records = @ + n]]
    IN  IF HasLatest(store, ticker)
        THEN IF get_latest_date(store, ticker) < Today
             THEN IF "timedelta" \notin TimeAttributes
                  THEN fail      \* time.timedelta: AttributeError, caught at line 127
                  ELSE IF fetched = NoFrame THEN fail
                  ELSE LET u == update_stock_data(store, ticker, fetched)
                       IN  IF u.returned > 0 THEN good(u.store, u.returned)
                           ELSE [store |-> u.store, results |-> results]
             ELSE good(store, 0)
        ELSE IF fetched = NoFrame THEN fail
             ELSE good(add_stock_data(store, ticker, fetched), Len(fetched.dates))

RECURSIVE CollectFrom(_, _, _, _)
CollectFrom(store, results, tickers, fetch) ==
    IF tickers = <<>> THEN [store |-> store, results |-> results]
    ELSE LET step == ProcessTicker(store, results, Head(tickers), fetch[Head(tickers)])
         IN  CollectFrom(step.store, step.results, Tail(tickers), fetch)

\* collect_historical_data(tickers); fetch is what Yahoo answers per ticker
collect_historical_data(store, tickers, fetch) ==
    CollectFrom(store, NoResults, tickers, fetch)

\* DataCollector.update_all_data, which DailyUpdater.update_all_data returns
update_all_data(store, fetch) ==
    IF get_tickers_with_data(store) = <<>> THEN [store |-> store, results |-> NoResults]
    ELSE collect_historical_data(store, get_tickers_with_data(store), fetch)

-----------------------------------------------------------------------------
(* The store under calls of the manager and the collector; data is the table *)

InitStore ==
    /\ data = EmptyStore
    /\ sklearn = NoFit
    /\ Idle

KeepStoreRest == Keep /\ UNCHANGED <<sklearn, constructed>>

add_stock_data_call ==
    /\ \E ticker \in Tickers, new \in NewFrames :
          /\ data' = add_stock_data(data, ticker, new)
          /\ result' = [op |-> "add_stock_data", raised |-> FALSE, before |-> data,
                        ticker |-> ticker, new |-> new]
    /\ KeepStoreRest

update_stock_data_call ==
    /\ \E ticker \in Tickers, new \in NewFrames :
          LET u == update_stock_data(data, ticker, new)
          IN  /\ data' = u.store
              /\ result' = [op |-> "update_stock_data", raised |-> FALSE, before |-> data,
                            ticker |-> ticker, new |-> new, returned |-> u.returned]
    /\ KeepStoreRest

get_stock_data_call ==
    /\ \E ticker \in Tickers :
          result' = [op |-> "get_stock_data", raised |-> FALSE, before |-> data,
                     ticker |-> ticker, value |-> get_stock_data(data, ticker)]
    /\ UNCHANGED data
    /\ KeepStoreRest

TickerLists == {<<"AAA">>, <<"AAA", "BBB">>}

collect_historical_data_call ==
    /\ \E tickers \in TickerLists, f \in Fetched :
          LET c == collect_historical_data(data, tickers, [t \in Tickers |-> f])
          IN  /\ data' = c.store
              /\ result' = [op |-> "collect_historical_data", raised |-> FALSE,
                            before |-> data, tickers |-> tickers, fetched |-> f,
                            value |-> c.results]
    /\ KeepStoreRest

update_all_data_call ==
    /\ \E f \in Fetched :
          LET c == update_all_data(data, [t \in Tickers |-> f])
          IN  /\ data' = c.store
              /\ result' = [op |-> "update_all_data", raised |-> FALSE,
                            before |-> data, tickers |-> get_tickers_with_data(data),
                            fetched |-> f, value |-> c.results]
    /\ KeepStoreRest

NextStore ==
    \/ add_stock_data_call
    \/ update_stock_data_call
    \/ get_stock_data_call
    \/ collect_historical_data_call
    \/ update_all_data_call

SpecStore == InitStore /\ [][NextStore]_vars

-----------------------------------------------------------------------------
(* backend/scrapers/sp500_scraper.py: get_tickers_with_retry *)

MaxRetries == 3           \* the largest max_retries tried

\* what one call of scrape_sp500_tickers gives: a list with tickers, the
\* empty list, or an exception
ScrapeOutcomes == {"tickers", "empty", "raises"}

LoopContinues_inclusive(attempt, max_retries) == attempt <= max_retries

\* for attempt in range(max_retries): attempt counts the passes made
LoopContinues(attempt, max_retries) == attempt < max_retries

\* data is the call's argument and what the scraper would answer on each
\* invocation
InitRetry ==
    /\ data \in [max_retries : 0..MaxRetries,
                 outcomes : [1..(MaxRetries + 1) -> ScrapeOutcomes]]
    /\ sklearn = NoFit
    /\ Idle

\* get_tickers_with_retry(max_retries) is entered; result is the position of
\* the call
get_tickers_with_retry_call ==
    /\ Fresh
    /\ result' = [op |-> "get_tickers_with_retry", raised |-> FALSE, pc |-> "loop",
                  attempt |-> 0, calls |-> 0, returned |-> "none"]
    /\ OnlyResult

\* one pass of the loop: the scraper is invoked once (it returns within its
\* 30 s timeout); a non-empty list is returned at once, otherwise the pass
\* ends after the sleep
scrape_attempt ==
    /\ result.op = "get_tickers_with_retry"
    /\ result.pc = "loop"
    /\ LoopContinues(result.attempt, data.max_retries)
    /\ LET outcome == data.outcomes[result.attempt + 1]
       IN  result' =
              IF outcome = "tickers"
              THEN [result EXCEPT !.calls = @ + 1, !.pc = "done", !.returned = "tickers"]
              ELSE [result EXCEPT !.calls = @ + 1, !.attempt = @ + 1]
    /\ OnlyResult

\* the loop is exhausted: "All attempts failed", return []
retries_exhausted ==
    /\ result.op = "get_tickers_with_retry"
    /\ result.pc = "loop"
    /\ ~LoopContinues(result.attempt, data.max_retries)
    /\ result' = [result EXCEPT !.pc = "done", !.returned = "empty"]
    /\ OnlyResult

NextRetry ==
    \/ get_tickers_with_retry_call
    \/ scrape_attempt
    \/ retries_exhausted

\* every pass ends: the request has a timeout and the sleeps are 2 s
SpecRetry == InitRetry /\ [][NextRetry]_vars /\ WF_vars(NextRetry)

-----------------------------------------------------------------------------
(* Claims *)

IsBacktest == result.op = "backtest_model" /\ ~result.value.empty

\* C1: in every backtest result, the step return recorded for an evaluated
\* row i is +r_i when the class is 1 and p > 0.6, -r_i when the class is 0 and
\* p < 0.4, and 0 otherwise, r_i = close[i+1]/close[i] - 1 being the return
\* that follows row i itself, also when earlier window rows were skipped.
C1_StepReturnOfOwnRow ==
    IsBacktest =>
        \A k \in DOMAIN result.value.rows :
            LET i == result.value.rows[k]
                r == Ret(data.Close[i], data.Close[i + 1])
                pred == result.value.predictions[k]
                prob == result.value.probabilities[k]
            IN  result.value.strategy_returns[k] =
                    (IF pred = 1 /\ prob > 600 THEN r
                     ELSE IF pred = 0 /\ prob < 400 THEN -r
                     ELSE 0)

\* C2: in every backtest result, the class predicted from row i's features is
\* scored against row i's own next-day direction, and the accuracy is the
\* fraction of evaluated rows where the two agree.
C2_ScoredAgainstOwnLabel ==
    IsBacktest =>
        /\ \A k \in DOMAIN result.value.rows :
              result.value.actuals[k] =
                  Next_Day_Direction(data.Close, result.value.rows[k])
        /\ result.value.accuracy =
              [hits |-> Cardinality({k \in DOMAIN result.value.rows :
                            result.value.predictions[k] =
                                Next_Day_Direction(data.Close, result.value.rows[k])}),
               of |-> Len(result.value.rows)]

\* C3: every row used for training or held-out scoring has all its features
\* and its label defined; the final row, which has no next-day return, is
\* never a labelled example.
C3_TrainingRowsDefined ==
    \A i \in train_rows :
        /\ FeatureRow(data, i)
        /\ Next_Day_Return_defined(data.Close, i)

\* C4: on 300 strictly increasing closes with constant volume the predictive
\* analysis trains a model and predicts bullish with probability > 0.6.
C4_ScenarioABullish ==
    (/\ data = ScenarioA
     /\ result.op = "_perform_predictive_analysis"
     /\ result.index = "DatetimeIndex")
    => /\ result.value.error = "none"
       /\ result.value.trained
       /\ result.value.next_day_prediction.prediction = "bullish"
       /\ result.value.next_day_prediction.probability > 600

IsMappedPrediction ==
    /\ result.op = "predict_next_day"
    /\ result.value.model_used # NoModel

\* C5: predict_next_day maps the selected model's probability p to bullish
\* above 0.6 (high above 0.75, else medium), bearish below 0.4 (high below
\* 0.25, else medium), otherwise neutral (medium if |p - 0.5| > 0.05, else
\* low); confidence low occurs only with direction neutral.
C5_ProbabilityMapping ==
    result.op = "predict_next_day" =>
        LET v == result.value
            p == v.probability
        IN  /\ v.model_used # NoModel => p = best_model[FeatClass(data, Len(data.Close))].prob
            /\ p > 600 => v.prediction = "bullish"
                           /\ v.confidence = (IF p > 750 THEN "high" ELSE "medium")
            /\ p < 400 => v.prediction = "bearish"
                           /\ v.confidence = (IF p < 250 THEN "high" ELSE "medium")
            /\ (p >= 400 /\ p <= 600) =>
                   /\ v.prediction = "neutral"
                   /\ v.confidence =
                         (IF p - 500 > 50 \/ 500 - p > 50 THEN "medium" ELSE "low")
            /\ v.confidence = "low" => v.prediction = "neutral"

\* C5 witness: a probability exactly at the edge of the neutral band was mapped
C5_Witness ==
    /\ IsMappedPrediction
    /\ result.value.probability = 550
    /\ result.value.prediction = "neutral"
    /\ result.value.confidence = "low"

\* C6: with no trained family or an undefined latest row the prediction is
\* exactly neutral / 0.5 / low, and no input makes the predictive path
\* (train_models, create_predictive_model on a DatetimeIndex frame,
\* predict_next_day, backtest_model) raise past its boundary.
C6_NeverRaises ==
    /\ (result.op = "predict_next_day"
         /\ (best_model_name = NoModel \/ ~features[Len(data.Close)]))
        => /\ result.value.prediction = "neutral"
           /\ result.value.probability = 500
           /\ result.value.confidence = "low"
    /\ result.op \in {"train_models", "predict_next_day", "backtest_model"}
        => ~result.raised
    /\ (result.op = "create_predictive_model" /\ result.index = "DatetimeIndex")
        => ~result.raised

JustTrained ==
    /\ result.op \in {"train_models", "create_predictive_model"}
    /\ ~result.raised
    /\ train_rows # {}

FamilyIndex(name) == CHOOSE k \in 1..Len(Families) : Families[k] = name

\* C7: after train_models the selected model is a family that trained without
\* error and whose held-out accuracy is maximal among those; among equals the
\* one trained first is selected; with no family trained none is selected.
C7_SelectedIsFirstBest ==
    JustTrained =>
        IF \A k \in 1..Len(Families) : sklearn.outcome[k] = FAIL
        THEN best_model_name = NoModel
        ELSE /\ best_model_name \in {Families[k] : k \in 1..Len(Families)}
             /\ LET b == FamilyIndex(best_model_name)
                IN  /\ sklearn.outcome[b] # FAIL
                    /\ \A k \in 1..Len(Families) :
                          sklearn.outcome[k] # FAIL =>
                              /\ sklearn.outcome[k] <= sklearn.outcome[b]
                              /\ k < b => sklearn.outcome[k] < sklearn.outcome[b]

\* C7 witness: the first family failed and the other two tied
C7_Witness ==
    /\ JustTrained
    /\ sklearn.outcome[1] = FAIL
    /\ sklearn.outcome[2] = 1
    /\ sklearn.outcome[3] = 1
    /\ best_model_name = "gradient_boosting"

RECURSIVE SumUpTo(_, _)
SumUpTo(s, k) == IF k = 0 THEN 0 ELSE SumUpTo(s, k - 1) + s[k]

\* C8: in every backtest result total_return is the sum of strategy_returns
\* and win_rate is the number of positive steps over the number of all steps,
\* flat steps included.
C8_AggregatesFromSequence ==
    IsBacktest =>
        LET sr == result.value.strategy_returns
        IN  /\ result.value.total_return = SumUpTo(sr, Len(sr))
            /\ result.value.win_rate.wins =
                  Cardinality({k \in DOMAIN sr : sr[k] > 0})
            /\ result.value.win_rate.of = Len(sr)

\* C8 witness: a result holding a winning step and a flat step
C8_Witness ==
    /\ IsBacktest
    /\ \E k \in DOMAIN result.value.strategy_returns :
          result.value.strategy_returns[k] > 0
    /\ \E k \in DOMAIN result.value.strategy_returns :
          result.value.strategy_returns[k] = 0
    /\ result.value.win_rate.wins < result.value.win_rate.of

\* what an entry path reports about the amount of data
Reported(r) ==
    CASE r.op = "get_prediction" -> r.value.error
      [] r.op = "get_comprehensive_analysis" ->
            IF r.value.kind = "merged" THEN r.value.predictive_analysis.error
            ELSE r.value.error
      [] r.op = "create_predictive_model" ->
            IF r.raised THEN "raised" ELSE "none"
      [] OTHER -> "none"

EntryPaths == {"get_prediction", "get_comprehensive_analysis",
               "create_predictive_model"}

\* C9: on fewer than 100 rows every entry path that builds a model refuses to
\* train and reports the insufficient-data condition; on 100 or more rows it
\* proceeds to train.
C9_MinimumDataContract ==
    (result.op \in EntryPaths /\ Len(data.Close) > 0) =>
        IF Len(data.Close) < 100
        THEN /\ Reported(result) = "insufficient_data"
             /\ train_rows = {}
        ELSE Reported(result) # "insufficient_data"

\* C10: on non-empty data get_comprehensive_analysis returns the merged
\* result; a component that failed shows as a keyed error in its own section
\* and the other sections and the summary are present.
C10_MergedDespiteFailure ==
    (result.op = "get_comprehensive_analysis" /\ Len(data.Close) > 0) =>
        /\ result.value.kind = "merged"
        /\ result.value.technical_analysis.error # "none"
              <=> result.technical_raised
        /\ result.value.seasonality_analysis.error # "none"
              <=> result.seasonality_raised
        /\ result.value.summary.error = "none"

\* C19: in a constructed predictor's frame, every row whose 20-period band
\* width is greater than zero has its Bollinger position in [0,1], and every
\* full-window row whose band width is zero has the position missing.
C19_PositionInUnitInterval ==
    constructed =>
        \A i \in 1..Len(data.Close) :
            RollingDefined(i, BB_Window) =>
                IF BandWidthPositive(data.Close, i)
                THEN BB_Position(data.Close, i) = "in_unit_interval"
                ELSE BB_Position(data.Close, i) = "missing"

RowsOf(d) == 1..Len(d.Close)

\* C12: the month buckets of analyze_monthly_seasonality partition the rows
\* with a defined return: the first row is counted in no bucket, every other
\* row in exactly one, and the total_days of the buckets sum to the number of
\* rows minus one.
C12_MonthBucketsPartitionReturns ==
    result.op = "analyze_monthly_seasonality" =>
        LET stats == result.value
            months == DOMAIN stats
            days == [m \in months |-> stats[m].total_days]
        IN  /\ \A m \in months : 1 \notin stats[m].rows
            /\ \A i \in RowsOf(data) \ {1} :
                  Cardinality({m \in months : i \in stats[m].rows}) = 1
            /\ SumFn(days, months) = Max(0, Len(data.Close) - 1)

\* the number of days of a month, from the calendar rules
DaysInMonth(y, m) ==
    CASE m \in {1, 3, 5, 7, 8, 10, 12} -> 31
      [] m \in {4, 6, 9, 11} -> 30
      [] OTHER -> IF (y % 400 = 0) \/ (y % 4 = 0 /\ y % 100 # 0) THEN 29 ELSE 28

InLastThreeDays(t) == t.day \in (DaysInMonth(t.year, t.month) - 2)..DaysInMonth(t.year, t.month)

\* C13: analyze_month_end_effect puts each row with a defined return in
\* exactly one class, 'month_end' iff its day is among the last 3 calendar
\* days of its own month (leap years included), and the two total_days sum to
\* the number of rows with a defined return.
C13_MonthEndClasses ==
    (result.op = "analyze_month_end_effect" /\ result.value.kind = "effect") =>
        LET e == result.value.month_end
            o == result.value.other_days
        IN  /\ \A i \in RowsOf(data) \ {1} :
                  /\ i \in e.rows <=> InLastThreeDays(data.Date[i])
                  /\ i \in o.rows <=> ~InLastThreeDays(data.Date[i])
            /\ 1 \notin e.rows \cup o.rows
            /\ e.total_days = Cardinality(e.rows)
            /\ o.total_days = Cardinality(o.rows)
            /\ e.total_days + o.total_days = Len(data.Close) - 1

\* C13 witness: 27 February of a leap year classified as month end, next to
\* a row outside the last three days
C13_Witness ==
    /\ result.op = "analyze_month_end_effect"
    /\ result.value.kind = "effect"
    /\ \E i \in result.value.month_end.rows :
          data.Date[i] = [year |-> 2024, month |-> 2, day |-> 27]
    /\ result.value.other_days.rows # {}

\* every daily return of the history has the same value
AllReturnsEqual(d) ==
    /\ Len(d.Close) >= 2
    /\ \A i, j \in RowsOf(d) \ {1} : Daily_Return(d.Close, i) = Daily_Return(d.Close, j)

\* C14: when every daily return has the same value, the seasonality strength
\* is 'none' and the seasonal forecast recommends 'neutral' for every month.
C14_FlatHistoryNeutral ==
    AllReturnsEqual(data) =>
        /\ result.op = "get_comprehensive_seasonality_report"
              => result.value.summary.seasonality_strength = "none"
        /\ result.op = "get_seasonal_forecast"
              => result.value.recommendation = "neutral"

ConfidenceLevel(c) == CASE c = "low" -> 0 [] c = "medium" -> 1 [] OTHER -> 2

\* |win_rate - 0.5| of x is larger than that of y
DeviatesMore(x, y) ==
    Abs(2 * x.positive_days - x.total_days) * y.total_days
        > Abs(2 * y.positive_days - y.total_days) * x.total_days

\* C15: the forecast's confidence is monotone in |win_rate - 0.5|: a month
\* whose win rate deviates more from 50% than another month's never gets a
\* lower confidence than that month.
C15_ConfidenceMonotone ==
    (result.op = "get_seasonal_forecast" /\ result.value.kind = "forecast"
        /\ result.value.has_stats) =>
        LET stats == analyze_monthly_seasonality(data)
        IN  \A m \in DOMAIN stats :
                DeviatesMore(stats[result.target_month], stats[m]) =>
                    ConfidenceLevel(result.value.confidence)
                        >= ConfidenceLevel(get_seasonal_forecast(data, m).confidence)

\* what an analyzer's result tells its caller
Signal(r) ==
    CASE r.op = "create_predictive_model" ->
            IF r.raised THEN "exception" ELSE "predictor"
      [] r.op = "_perform_predictive_analysis" -> r.value.error
      [] OTHER -> r.value.kind

AnalyzerOps == {"calculate_all_indicators", "get_comprehensive_seasonality_report",
                "_perform_predictive_analysis", "create_predictive_model"}

\* C11: on an empty PriceBar sequence each of the three analyzers returns an
\* explicit no-data signal, not an empty result, an unmarked empty frame or
\* an exception.
C11_EmptyInputSignalled ==
    (empty(data) /\ result.op \in AnalyzerOps) => Signal(result) = "no_data"

\* C20: the frame of moving averages has as many rows as the input and, for
\* every configured period p, the columns MA_p and EMA_p: all missing when
\* p exceeds the number of rows, and with the first p-1 rows of MA_p missing
\* otherwise.
C20_LongPeriodAllMissing ==
    (result.op \in {"calculate_moving_averages", "calculate_all_indicators"}
        /\ ~empty(data)) =>
        LET n == Len(data.Close)
            f == result.value
        IN  /\ f.rows = n
            /\ \A p \in result.periods :
                  /\ p \in DOMAIN f.MA /\ p \in DOMAIN f.EMA
                  /\ p > n => \A i \in 1..n : ~f.MA[p][i] /\ ~f.EMA[p][i]
                  /\ p <= n => \A i \in 1..(p - 1) : ~f.MA[p][i]

IsSummary == result.op = "_generate_analysis_summary"

\* the latest close is more than 5% above (below) the mean of the last 20
\* closes: c > 1.05 * S/20, c < 0.95 * S/20
CloseAboveMA20(d) ==
    /\ Len(d.Close) >= 20
    /\ 400 * d.Close[Len(d.Close)] > 21 * SumSeq(SubSeq(d.Close, Len(d.Close) - 19, Len(d.Close)))
CloseBelowMA20(d) ==
    /\ Len(d.Close) >= 20
    /\ 400 * d.Close[Len(d.Close)] < 19 * SumSeq(SubSeq(d.Close, Len(d.Close) - 19, Len(d.Close)))

\* the sentiment as the moving-average rule leaves it: no seasonality summary
\* and no prediction reach the later rules
OnlyTechnical ==
    /\ IsSummary
    /\ result.technical_analysis.error = "none"
    /\ result.seasonality_analysis.error # "none"
    /\ result.predictive_analysis.error # "none"

\* C16: the price-vs-20-day-MA rule sets the sentiment to bullish exactly when
\* the latest close is more than 5% above the 20-day moving average, to
\* bearish exactly when it is more than 5% below, and leaves it neutral for
\* deviations within 5%.
C16_MA20RuleAtFivePercent ==
    OnlyTechnical =>
        /\ result.value.overall_sentiment = "bullish" <=> CloseAboveMA20(data)
        /\ result.value.overall_sentiment = "bearish" <=> CloseBelowMA20(data)

\* no rule other than the RSI rule fires: the price is within the band of the
\* moving-average rule as the code applies it, the month is not the best
\* month, and there is no prediction
OnlyRsiFires ==
    /\ IsSummary
    /\ result.technical_analysis.error = "none"
    /\ ~result.technical_analysis.current_indicators.rsi.nan
    /\ \/ result.technical_analysis.current_indicators.rsi.value > 70
       \/ result.technical_analysis.current_indicators.rsi.value < 30
    /\ ~PctAbove(result.technical_analysis.current_indicators.price_vs_ma20)
    /\ ~PctBelow(result.technical_analysis.current_indicators.price_vs_ma20)
    /\ \/ result.seasonality_analysis.error # "none"
       \/ result.seasonality_analysis.summary.best_month # result.current_month
    /\ result.predictive_analysis.error # "none"

\* C17: when the RSI is above 70 or below 30 and no other rule fires, the
\* overall sentiment leaves neutral.
C17_RsiEscalates ==
    OnlyRsiFires => result.value.overall_sentiment # "neutral"

\* the sentiment after the indicator and seasonality rules
SentimentBeforePrediction ==
    SeasonalityRules(
        TechnicalRules([overall_sentiment |-> "neutral", confidence_level |-> "medium",
                        key_insights |-> <<>>, recommendations |-> <<>>],
                       result.technical_analysis),
        result.seasonality_analysis, result.current_month).overall_sentiment

HighPrediction ==
    /\ IsSummary
    /\ result.predictive_analysis.error = "none"
    /\ result.predictive_analysis.next_day_prediction.confidence = "high"
    /\ SentimentBeforePrediction = "neutral"

\* C18: when the prediction has confidence 'high' and the sentiment is still
\* neutral after the indicator and seasonality rules, the sentiment becomes
\* the prediction's direction, the confidence level becomes 'high', and the
\* last recommendation is the 'Strong' buy or sell signal of that direction.
C18_HighPredictionDecides ==
    HighPrediction =>
        LET direction == result.predictive_analysis.next_day_prediction.prediction
            recs == result.value.recommendations
        IN  /\ result.value.overall_sentiment = direction
            /\ result.value.confidence_level = "high"
            /\ recs # <<>>
            /\ recs[Len(recs)] = IF direction = "bullish" THEN "Strong buy signal"
                                 ELSE "Strong sell signal"

\* C18 witness: a high-confidence bearish prediction decides a summary that an
\* overbought RSI had left neutral
C18_Witness ==
    /\ HighPrediction
    /\ result.predictive_analysis.next_day_prediction.prediction = "bearish"
    /\ Len(result.value.recommendations) = 2
    /\ result.value.overall_sentiment = "bearish"

\* the window rows, the last excepted, whose features are all defined
CompleteWindowRows ==
    {r \in WindowStart(Len(data.Close), result.days_back)..(Len(data.Close) - 1) :
        features[r]}

\* C24: in every non-empty backtest result total_trades, the number of
\* predictions scored for accuracy and the length of strategy_returns all
\* equal the number of window rows with complete features; skipped rows
\* count in none of them.
C24_CountsAreEvaluatedRows ==
    IsBacktest =>
        /\ {result.value.rows[k] : k \in DOMAIN result.value.rows} = CompleteWindowRows
        /\ result.value.total_trades = Cardinality(CompleteWindowRows)
        /\ result.value.accuracy.of = Cardinality(CompleteWindowRows)
        /\ Len(result.value.predictions) = Cardinality(CompleteWindowRows)
        /\ Len(result.value.strategy_returns) = Cardinality(CompleteWindowRows)

\* C24 witness: a backtest whose window lost rows to undefined features
C24_Witness ==
    /\ IsBacktest
    /\ result.value.total_trades > 0
    /\ result.value.total_trades
          < Len(data.Close) - WindowStart(Len(data.Close), result.days_back)

InsightsOf(s) == {s.key_insights[k] : k \in DOMAIN s.key_insights}

LastRecommendation(s) == s.recommendations[Len(s.recommendations)]

\* the sentiment after the indicator rules alone
SentimentAfterTechnical ==
    TechnicalRules([overall_sentiment |-> "neutral", confidence_level |-> "medium",
                    key_insights |-> <<>>, recommendations |-> <<>>],
                   result.technical_analysis).overall_sentiment

\* C25: the overall sentiment is fixed by the first rule that fires (price
\* vs 20-day MA, best month, prediction) and no later rule changes it, and the
\* direction of the final buy/sell recommendation agrees with any
\* high-confidence prediction insight of the same summary.
C25_RecommendationAgreesWithInsight ==
    IsSummary =>
        /\ SentimentAfterTechnical # "neutral"
              => result.value.overall_sentiment = SentimentAfterTechnical
        /\ SentimentBeforePrediction # "neutral"
              => result.value.overall_sentiment = SentimentBeforePrediction
        /\ "High confidence bullish prediction" \in InsightsOf(result.value)
              => LastRecommendation(result.value) \in
                     {"Strong buy signal", "Moderate buy signal"}
        /\ "High confidence bearish prediction" \in InsightsOf(result.value)
              => LastRecommendation(result.value) \in
                     {"Strong sell signal", "Moderate sell signal"}


IsTrend == result.op = "calculate_trend_signals" /\ ~result.raised

AveragesDefined(i) ==
    /\ RollingDefined(i, MA20_Window)
    /\ RollingDefined(i, MA50_Window)
    /\ RollingDefined(i, MA200_Window)

\* C21: at a row where the 20-, 50- and 200-day averages are all defined each
\* vote is +1 or -1 and overall_trend is the mean of the three votes; at a
\* row where an average is undefined the votes that read it and overall_trend
\* are missing.
C21_VotesMissingWithoutAverages ==
    IsTrend =>
        \A i \in DOMAIN result.value.rows :
            LET row == result.value.rows[i]
            IN  IF AveragesDefined(i)
                THEN /\ row.ma_trend_short \in {Num(1), Num(-1)}
                     /\ row.ma_trend_medium \in {Num(1), Num(-1)}
                     /\ row.ma_trend_long \in {Num(1), Num(-1)}
                     /\ row.overall_trend3
                           = Num(row.ma_trend_short.value + row.ma_trend_medium.value
                                    + row.ma_trend_long.value)
                ELSE /\ row.overall_trend3 = NaN
                     /\ ~RollingDefined(i, MA20_Window) => row.ma_trend_short = NaN
                     /\ ~RollingDefined(i, MA50_Window) => row.ma_trend_medium = NaN
                     /\ row.ma_trend_long = NaN

\* C23: a bullish crossover is flagged at a row exactly when macd - signal is
\* strictly negative on the previous row and strictly positive on the row, a
\* bearish one exactly in the mirrored case, a previous difference of zero
\* flags nothing, and no row carries both flags.
C23_CrossoverNeedsStrictSignChange ==
    IsTrend =>
        \A i \in DOMAIN result.value.rows :
            LET row == result.value.rows[i]
                prev == IF i > 1 THEN result.value.rows[i - 1].macd_diff ELSE "nan"
            IN  /\ row.macd_bullish <=> (prev = "neg" /\ row.macd_diff = "pos")
                /\ row.macd_bearish <=> (prev = "pos" /\ row.macd_diff = "neg")
                /\ ~(row.macd_bullish /\ row.macd_bearish)

\* C30: on stored rows that are not empty the 'trend_signals' entry of the
\* technical section and of get_trend_analysis holds the signals of the last
\* row: it is neither empty nor an error.
C30_TrendEntryIsLastRow ==
    (/\ result.op \in {"_perform_technical_analysis", "get_trend_analysis"}
     /\ ~empty(data))
        => /\ result.value.error = "none"
           /\ result.value.trend_signals
                 = [kind |-> "row",
                    value |-> result.signals.rows[Len(result.signals.rows)]]


\* the rows 1..i of the frame in data
PrefixOfData(i) ==
    [Close |-> SubSeq(data.Close, 1, i), Volume |-> data.Volume,
     Date |-> SubSeq(data.Date, 1, i)]

\* what a frame of calculate_moving_averages holds for a column at row i:
\* a number, or none (the value is NaN or the frame has no such column)
ColumnAt(columns, p, i) ==
    IF p \in DOMAIN columns /\ columns[p][i] THEN "number" ELSE "none"

\* C22: no look-ahead: what an indicator column holds at row i is a function
\* of the rows up to i, so the history cut after row i gives the same entry
\* at row i as the whole history.
C22_IndicatorsReadNoLaterRow ==
    result.op = "calculate_moving_averages" =>
        \A i \in 1..Len(data.Close) : \A p \in result.periods :
            LET cut == calculate_moving_averages(PrefixOfData(i), result.periods)
            IN  /\ ColumnAt(result.value.MA, p, i) = ColumnAt(cut.MA, p, i)
                /\ ColumnAt(result.value.EMA, p, i) = ColumnAt(cut.EMA, p, i)


DistinctDates(dates) == \A i, j \in DOMAIN dates : dates[i] = dates[j] => i = j

\* the rows of the frame that update_stock_data is to insert
LaterRows(store, ticker, new) ==
    IF HasLatest(store, ticker)
    THEN LaterThan(new.dates, get_latest_date(store, ticker))
    ELSE new.dates

StrictlyAscending(s) == \A j \in 1..(Len(s) - 1) : s[j] < s[j + 1]

\* C26: update_stock_data inserts exactly the rows of the new data dated
\* strictly after the ticker's latest stored date and returns their count;
\* the same call again returns 0 and changes nothing; whatever calls were
\* made, no (date, ticker) is stored twice and get_stock_data is strictly
\* ascending by date.
C26_UpdateInsertsLaterRows ==
    /\ (result.op = "update_stock_data" /\ DistinctDates(result.new.dates)) =>
          LET later == LaterRows(result.before, result.ticker, result.new)
          IN  /\ data = Inserted(result.before, result.ticker, later)
              /\ result.returned = Len(later)
              /\ update_stock_data(data, result.ticker, result.new)
                    = [store |-> data, returned |-> 0]
    /\ result.op # "none" => \A k \in Keys : data[k] <= 1
    /\ result.op = "get_stock_data" => StrictlyAscending(result.value)

IsCollect == result.op \in {"collect_historical_data", "update_all_data"}

\* the rows of a ticker that the last call put into the table
RowsStored(ticker) ==
    SumFn([k \in Keys |-> data[k] - result.before[k]], {ticker} \X Days)

InSeq(s, x) == \E j \in DOMAIN s : s[j] = x

\* C27: after collect_historical_data, total_records is the number of rows
\* the call inserted, and a ticker listed as successful had rows stored or
\* was up to date already; a ticker whose insert was rolled back is not
\* successful.
C27_TotalsAreInsertedRows ==
    IsCollect =>
        /\ result.value.total_records = SumFn([t \in Tickers |-> RowsStored(t)], Tickers)
        /\ \A t \in Tickers :
              InSeq(result.value.successful, t) =>
                  \/ RowsStored(t) > 0
                  \/ /\ HasLatest(result.before, t)
                     /\ get_latest_date(result.before, t) = Today

\* C28: in collect_historical_data and update_all_data, for a ticker whose
\* latest stored date is before today and whose fetch returns rows with new
\* dates, these rows are stored, counted in total_records, and the ticker is
\* listed as successful.
C28_StaleTickerIsUpdated ==
    IsCollect =>
        \A t \in Tickers :
            LET later == LaterRows(result.before, t, result.fetched)
            IN  (/\ InSeq(result.tickers, t)
                 /\ HasLatest(result.before, t)
                 /\ get_latest_date(result.before, t) < Today
                 /\ result.fetched # NoFrame
                 /\ later # <<>>
                 /\ DistinctDates(later))
                    => /\ \A j \in DOMAIN later : data[<<t, later[j]>>] = 1
                       /\ InSeq(result.value.successful, t)
                       /\ result.value.total_records >= Len(later)


RetryDone == result.op = "get_tickers_with_retry" /\ result.pc = "done"

\* the first invocation that gives tickers, among those the call may make
FirstTickers ==
    {k \in 1..data.max_retries :
        /\ data.outcomes[k] = "tickers"
        /\ \A j \in 1..(k - 1) : data.outcomes[j] # "tickers"}

RetrySafe ==
    result.op = "get_tickers_with_retry" =>
        /\ result.calls <= data.max_retries
        /\ RetryDone =>
              /\ result.returned = "tickers" => result.calls \in FirstTickers
              /\ result.returned = "empty" <=> FirstTickers = {}
              /\ result.returned = "empty" => result.calls = data.max_retries

\* C29: get_tickers_with_retry(max_retries = n) invokes the scraper at most n
\* times, returns the first non-empty list without a further attempt, returns
\* the empty list exactly when all n attempts gave nothing, and terminates.
C29_BoundedRetryTerminates == []RetrySafe /\ <>RetryDone

C29_Witness ==
    /\ RetryDone
    /\ result.returned = "tickers"
    /\ result.calls >= 2
    /\ result.calls < data.max_retries

====
